---- MODULE Spec2Model ----
(***************************************************************************)
(* Synapse backend (drexwrld/synapes-backend): the Express application of  *)
(* server.js with its auth routes (routes/auth.js), the auth gate          *)
(* (middleware/authMiddleware.js) and the Head-of-Class routes             *)
(* (routes/HOC.js), over the users and classes tables.                     *)
(*                                                                         *)
(* A request occupies a slot of `reqs` from the moment the client sends it *)
(* until its response is collected.  Every `await` of a handler is a point *)
(* where other requests may run, so a handler is one action per stretch of *)
(* code between two awaits; a database statement is atomic.                *)
(*                                                                         *)
(* Environment assumptions: the database answers every statement (no      *)
(* connection failure), process.env.JWT_SECRET is not changed while the    *)
(* process runs, and time is counted in days.                              *)
(***************************************************************************)
EXTENDS Integers, Sequences, FiniteSets, TLC

\* ------------------------------------------------------------------------
\* Bounds of the model
\* ------------------------------------------------------------------------
MaxReq == 1          \* request slots of Spec (requests in flight at once)
MaxClock == 1        \* the clock stops ticking here
MaxClassReq == 2     \* request slots of SpecClass
MaxClasses == 1      \* rows the classes table may hold in SpecClass
MaxNotifs == 3       \* ids the sequence of notifications.id may give
MaxClients == 3      \* clients pool.connect may give in a run
MaxMs == 2           \* the last value of Date.now()
MaxSignals == 2      \* SIGTERM and SIGINT the process receives
windowMs == 2        \* withRateLimit: the window, scaled down from 60000
LimitedMaxRequests == 2  \* maxRequests of GET /limited, scaled down from 10
SecureMaxRequests == 1   \* maxRequests of POST /secure-data, scaled down from 5

\* ------------------------------------------------------------------------
\* Program constants
\* ------------------------------------------------------------------------
JWT_EXPIRES_IN == 1           \* utils/jwt.js: '1d', in days
retries == 5                  \* db.js: connectWithRetry = async (retries = 5, ..)
MinPasswordLength == 6        \* routes/auth.js: password.length < 6
JWT_SECRET == "server-secret" \* process.env.JWT_SECRET
OtherSecret == "other-secret" \* any secret that is not JWT_SECRET

\* ------------------------------------------------------------------------
\* Values the clients send
\* ------------------------------------------------------------------------
\* An email is a sequence of characters.
EmailLower == <<"a", "@", "b", ".", "c">>
EmailUpper == <<"A", "@", "B", ".", "c">>
EmailOther == <<"z", "@", "b", ".", "c">>
EmailNoDot == <<"a", "@", "b">>
EmailNone == <<>>
FullNames == {"Ada", ""}
Salts == {"s1"}

\* ------------------------------------------------------------------------
\* utils/responseHandler.js
\* ------------------------------------------------------------------------
NoToken == [kind |-> "none", userId |-> 0, exp |-> 0, key |-> ""]
NoData ==
  [message |-> "", token |-> NoToken, userId |-> 0, isHoc |-> FALSE, rows |-> {},
   logged |-> 0]
NoRes == [status |-> 0, success |-> FALSE, error |-> "", data |-> NoData]

sendSuccess(data, statusCode) ==
  [status |-> statusCode, success |-> TRUE, error |-> "", data |-> data]

sendError(message, statusCode) ==
  [status |-> statusCode, success |-> FALSE, error |-> message, data |-> NoData]

Message(m) == [NoData EXCEPT !.message = m]

\* ------------------------------------------------------------------------
\* server.js: the global error handler, reached through asyncHandler's
\* .catch(next).  An error is [name, code, statusCode, message].
\* ------------------------------------------------------------------------
UniqueViolation ==
  [name |-> "error", code |-> "23505", statusCode |-> 0,
   message |-> "duplicate key value violates unique constraint"]

globalErrorHandler(err) ==
  LET statusCode0 == IF err.statusCode # 0 THEN err.statusCode ELSE 500
      picked ==
        IF err.name = "JsonWebTokenError" \/ err.name = "TokenExpiredError"
        THEN <<401, "Authentication error. Please log in again.">>
        ELSE IF err.code = "23505"
        THEN <<409, "Conflict: This item already exists.">>
        ELSE IF err.code = "ECONNREFUSED"
        THEN <<503, "Service temporarily unavailable. Please try again later.">>
        ELSE IF err.message = "Not allowed by CORS"
        THEN <<403, "Access denied due to security policy.">>
        ELSE IF statusCode0 < 500
        THEN <<statusCode0, IF err.message # "" THEN err.message ELSE "Bad Request">>
        ELSE <<statusCode0, "Internal Server Error">>
      statusCode == IF picked[1] < 400 \/ picked[1] > 599 THEN 500 ELSE picked[1]
  IN sendError(picked[2], statusCode)

\* ------------------------------------------------------------------------
\* String helpers of JavaScript used by the handlers
\* ------------------------------------------------------------------------
LowerChar(c) ==
  CASE c = "A" -> "a"
    [] c = "B" -> "b"
    [] c = "C" -> "c"
    [] c = "Z" -> "z"
    [] OTHER -> c

\* variant: the text as it was entered
toLowerCaseKeepsCase(s) == s

\* String.prototype.toLowerCase
toLowerCase(s) == [i \in 1..Len(s) |-> LowerChar(s[i])]

NonSpace(c) == c # " "

\* /\S+@\S+\.\S+/.test(email): unanchored; one non-space before an "@", a
\* non-empty run of non-spaces, a ".", one non-space.
EmailFormatOk(s) ==
  \E i \in 2..Len(s) : \E j \in (i + 2)..(Len(s) - 1) :
    /\ NonSpace(s[i - 1])
    /\ s[i] = "@"
    /\ \A k \in (i + 1)..(j - 1) : NonSpace(s[k])
    /\ s[j] = "."
    /\ NonSpace(s[j + 1])

\* ------------------------------------------------------------------------
\* utils/hash.js (bcryptjs): the hash carries its salt; comparing hashes the
\* entered password with the salt of the stored hash.
\* ------------------------------------------------------------------------
NoHash == [salt |-> "", digest |-> <<"", "">>]

hashPassword(password, salt) == [salt |-> salt, digest |-> <<salt, password>>]

\* variant: every entered password matches a stored hash
comparePasswordAnyPassword(enteredPassword, hashedPassword) == hashedPassword # NoHash

\* a password of the JSON body that is a number, not a string
NumberPassword == "12345 (number)"

\* bcrypt.compare: rejects when an argument is not a string ('Illegal
\* arguments'), else tells whether the password gives the digest
bcryptCompare(enteredPassword, hashedPassword) ==
  IF enteredPassword = NumberPassword
  THEN "error"
  ELSE IF hashPassword(enteredPassword, hashedPassword.salt).digest = hashedPassword.digest
  THEN "match"
  ELSE "mismatch"

BcryptError ==
  [name |-> "Error", code |-> "", statusCode |-> 0,
   message |-> "Illegal arguments: number, string"]

\* variant: comparePassword has no catch block
CaughtNever(result) == FALSE

\* comparePassword: try { .. } catch (error) { .. return false }
Caught(result) == result = "error"

\* comparePassword: the value it returns
comparePassword(enteredPassword, hashedPassword) ==
  IF enteredPassword = "" \/ hashedPassword = NoHash
  THEN FALSE
  ELSE bcryptCompare(enteredPassword, hashedPassword) = "match"

\* comparePassword: whether the call throws instead of returning
comparePasswordThrows(enteredPassword, hashedPassword) ==
  /\ ~(enteredPassword = "" \/ hashedPassword = NoHash)
  /\ bcryptCompare(enteredPassword, hashedPassword) = "error"
  /\ ~Caught(bcryptCompare(enteredPassword, hashedPassword))

\* ------------------------------------------------------------------------
\* utils/jwt.js and jsonwebtoken
\* ------------------------------------------------------------------------
Jwt(userId, exp, key) == [kind |-> "jwt", userId |-> userId, exp |-> exp, key |-> key]
EmptyToken == [kind |-> "empty", userId |-> 0, exp |-> 0, key |-> ""]
GarbageToken == [kind |-> "garbage", userId |-> 0, exp |-> 0, key |-> ""]

\* variant: the token is signed with another secret
generateTokenOtherSecret(userId, clock) == Jwt(userId, clock + JWT_EXPIRES_IN, OtherSecret)

\* generateToken(userId): jwt.sign({userId}, JWT_SECRET, {expiresIn})
generateToken(userId, clock) == Jwt(userId, clock + JWT_EXPIRES_IN, JWT_SECRET)

\* variant: verification without the expiry check
jwtVerifyNoExpiry(token, secret, clock) ==
  IF token.kind # "jwt" \/ token.key # secret
  THEN [ok |-> FALSE, name |-> "JsonWebTokenError", userId |-> 0]
  ELSE [ok |-> TRUE, name |-> "", userId |-> token.userId]

\* jwt.verify(token, secret): structure, then signature, then expiry.
jwtVerify(token, secret, clock) ==
  IF token.kind # "jwt"
  THEN [ok |-> FALSE, name |-> "JsonWebTokenError", userId |-> 0]
  ELSE IF token.key # secret
  THEN [ok |-> FALSE, name |-> "JsonWebTokenError", userId |-> 0]
  ELSE IF clock >= token.exp
  THEN [ok |-> FALSE, name |-> "TokenExpiredError", userId |-> 0]
  ELSE [ok |-> TRUE, name |-> "", userId |-> token.userId]

\* ------------------------------------------------------------------------
\* State
\* ------------------------------------------------------------------------
VARIABLES
  users,          \* table users: sequence of rows, row i has id i
  classes,        \* table classes: sequence of rows, row i has id i
  now,            \* the clock
  reqs,           \* request slots: the requests in flight and their responses
  held,           \* client side: the token of the latest successful login
  creds,          \* client side: <<email, password>> of every signup answered 201
  heldDenied,     \* client side: hocOnly has answered 403 to a request carrying `held`
  notifications,  \* table notifications: set of rows
  notifSeq,       \* the last id the sequence of notifications.id has given
  push_tokens,    \* table push_tokens: set of rows [user_id, token]
  user_push_tokens,  \* table user_push_tokens: set of rows [user_id, push_token]
  enrollments,    \* table enrollments: set of rows [student_id, class_id]
  notifications_enabled,  \* column users.notifications_enabled: the ids with TRUE
  outbox,         \* push provider: the tokens messages have been sent to
  removing,       \* calls of removeInvalidPushToken that have not reached the database
  secretSet,      \* process.env.JWT_SECRET is set
  server,         \* the process from the load of its modules: where it is, the
                  \* attempt of connectWithRetry, the client it holds, its exit code
  txn,            \* a call of transaction: where it is, the client it holds
  clients,        \* for each client pool.connect has given: the times it was released
  down,           \* the shutdown of the process: signals, HTTP server, pool
  rateLimitMap,   \* routes/hoc.js: for each ip the times of the requests passed on
  passed,         \* for each ip, route and time: the requests withRateLimit passed on
  lastLimit,      \* the latest request to a rate limited route and its outcome
  ms              \* Date.now()

\* the tables and the provider of the notification routes
notifVars ==
  <<notifications, notifSeq, push_tokens, user_push_tokens, enrollments,
    notifications_enabled, outbox, removing>>

\* the process: its environment, its start, and the clients of the pool
limitVars == <<rateLimitMap, passed, lastLimit, ms>>

sysVars == <<secretSet, server, txn, clients, down, limitVars>>

vars == <<users, classes, now, reqs, held, creds, heldDenied, notifVars, sysVars>>

NoRow ==
  [id |-> 0, email |-> <<>>, password_hash |-> NoHash, full_name |-> "",
   department |-> "", academic_year |-> "", is_hoc |-> FALSE]

\* req.user before protect has set it
NoUser ==
  [id |-> 0, email |-> <<>>, fullName |-> "", department |-> "",
   academicYear |-> "", isHoc |-> FALSE]

\* The Authorization header: absent, or some text; `bearer` says the text
\* starts with 'Bearer ', `cred` is authHeader.split(' ')[1].
NoHeader == [present |-> FALSE, bearer |-> FALSE, cred |-> NoToken]
Bearer(token) == [present |-> TRUE, bearer |-> TRUE, cred |-> token]
OtherScheme(token) == [present |-> TRUE, bearer |-> FALSE, cred |-> token]

NoBody == [none |-> TRUE]

IdleReq ==
  [pc |-> "idle", route |-> "none", hdr |-> NoHeader, body |-> NoBody,
   user |-> NoUser, row |-> NoRow, tokens |-> {}, tickets |-> {}, logged |-> 0,
   res |-> NoRes]

ReqIds == DOMAIN reqs

\* the slot a new request takes: slots are interchangeable, so the first
\* free one
Free(r) ==
  /\ reqs[r].pc = "idle"
  /\ \A q \in ReqIds : q < r => reqs[q].pc # "idle"

\* res.status(..).json(..): the handler is finished
Respond(r, response) ==
  reqs' = [reqs EXCEPT ![r] = [@ EXCEPT !.pc = "done", !.res = response]]

Goto(r, label) == reqs' = [reqs EXCEPT ![r] = [@ EXCEPT !.pc = label]]

\* a request arrives in a free slot and runs to its first await (label), or
\* to its response
Arrive(r, route, hdr, body, label, response) ==
  reqs' = [reqs EXCEPT ![r] =
             [IdleReq EXCEPT !.pc = label, !.route = route, !.hdr = hdr,
                             !.body = body, !.res = response]]

\* ------------------------------------------------------------------------
\* The users table
\* ------------------------------------------------------------------------
\* SELECT ... FROM users WHERE email = $1
SelectUsersByEmail(table, email) ==
  SelectSeq(table, LAMBDA row : row.email = email)

\* SELECT ... FROM users WHERE id = $1
SelectUsersById(table, id) ==
  SelectSeq(table, LAMBDA row : row.id = id)

\* ------------------------------------------------------------------------
\* routes/auth.js: POST /api/auth/signup
\* ------------------------------------------------------------------------
SignupBodies ==
  [fullName : FullNames,
   email : {EmailLower, EmailUpper, EmailOther, EmailNoDot},
   password : {"secret1", "hunter22", "abc12"},
   department : {"CS"}, academicYear : {"2"}]

SignupValid(body) ==
  /\ body.fullName # "" /\ body.email # <<>> /\ body.password # ""
  /\ body.department # "" /\ body.academicYear # ""
  /\ EmailFormatOk(body.email)
  /\ Len(body.password) >= MinPasswordLength

\* input validation, then the SELECT for an existing user
SignupSelect(r, body) ==
  /\ Free(r)
  /\ LET Reply(response) == Arrive(r, "signup", NoHeader, body, "done", response) IN
       IF \/ body.fullName = "" \/ body.email = <<>> \/ body.password = ""
          \/ body.department = "" \/ body.academicYear = ""
       THEN Reply(sendError("Missing required fields: fullName, email, password, department, and academicYear are required.", 400))
       ELSE IF ~EmailFormatOk(body.email)
       THEN Reply(sendError("Invalid email format.", 400))
       ELSE IF Len(body.password) < MinPasswordLength
       THEN Reply(sendError("Password must be a string of at least 6 characters.", 400))
       ELSE IF Len(SelectUsersByEmail(users, toLowerCase(body.email))) > 0
       THEN Reply(sendError("An account with this email address already exists.", 409))
       ELSE Arrive(r, "signup", NoHeader, body, "signup:insert", NoRes)
  /\ UNCHANGED <<users, classes, now, held, creds, heldDenied, notifVars, sysVars>>

\* INSERT INTO users ...: the row signup stores
SignupRow(table, body, salt) ==
  [id |-> Len(table) + 1,
   email |-> toLowerCase(body.email),
   password_hash |-> hashPassword(body.password, salt),
   full_name |-> body.fullName,
   department |-> body.department,
   academic_year |-> body.academicYear,
   is_hoc |-> FALSE]

\* hashPassword, then the INSERT (users.email is unique), then 201
SignupInsert(r) ==
  /\ reqs[r].pc = "signup:insert"
  /\ \E salt \in Salts :
       LET body == reqs[r].body
           row == SignupRow(users, body, salt)
       IN IF Len(SelectUsersByEmail(users, row.email)) > 0
          THEN /\ Respond(r, globalErrorHandler(UniqueViolation))
               /\ UNCHANGED <<users, creds>>
          ELSE /\ users' = Append(users, row)
               /\ creds' = creds \cup {<<body.email, body.password>>}
               /\ Respond(r, sendSuccess(Message("Account created successfully. You can now log in."), 201))
  /\ UNCHANGED <<classes, now, held, heldDenied, notifVars, sysVars>>

\* ------------------------------------------------------------------------
\* routes/auth.js: POST /api/auth/login
\* ------------------------------------------------------------------------
LoginBodies ==
  [email : {EmailLower, EmailUpper, EmailOther, EmailNone},
   password : {"secret1", "hunter22", ""}]

\* input validation, then the SELECT of the user by lower-cased email
LoginSelect(r, body) ==
  /\ Free(r)
  /\ LET rows == SelectUsersByEmail(users, toLowerCase(body.email))
         Reply(response) == Arrive(r, "login", NoHeader, body, "done", response)
     IN IF body.email = <<>> \/ body.password = ""
        THEN Reply(sendError("Please provide both email and password.", 400))
        ELSE IF Len(rows) = 0
        THEN Reply(sendError("Invalid email or password.", 401))
        ELSE reqs' = [reqs EXCEPT ![r] =
                        [IdleReq EXCEPT !.pc = "login:compare", !.route = "login",
                                        !.body = body, !.row = rows[1]]]
  /\ UNCHANGED <<users, classes, now, held, creds, heldDenied, notifVars, sysVars>>

\* comparePassword, generateToken, the success response; an exception of
\* comparePassword would reach the global error handler
LoginCompare(r) ==
  /\ reqs[r].pc = "login:compare"
  /\ LET body == reqs[r].body
         user == reqs[r].row
         isMatch == comparePassword(body.password, user.password_hash)
         token == generateToken(user.id, now)
     IN IF comparePasswordThrows(body.password, user.password_hash)
        THEN /\ Respond(r, globalErrorHandler(BcryptError))
             /\ UNCHANGED <<held, heldDenied>>
        ELSE IF ~isMatch
        THEN /\ Respond(r, sendError("Invalid email or password.", 401))
             /\ UNCHANGED <<held, heldDenied>>
        ELSE /\ Respond(r, sendSuccess([message |-> "", token |-> token,
                                        userId |-> user.id, isHoc |-> user.is_hoc], 200))
             /\ held' = token
             /\ heldDenied' = (heldDenied /\ token = held)
  /\ UNCHANGED <<users, classes, now, creds, notifVars, sysVars>>

\* ------------------------------------------------------------------------
\* server.js: the routes mounted behind protect, and behind protect, hocOnly
\* ------------------------------------------------------------------------
HomeRoutes == {"home:dashboard"}
HocRoutes ==
  {"hoc:test", "hoc:force-enable-hoc", "hoc:create-class", "hoc:cancel-class",
   "hoc:reschedule-class"}
ProtectedRoutes == HomeRoutes \cup HocRoutes

\* Tokens a client can make itself: signed with another secret, for the id
\* of a stored user or of none, expired from the start or not expiring while
\* the clock runs.
ForgedTokens == {Jwt(u, e, OtherSecret) : u \in {1, 3}, e \in {0, MaxClock + 1}}

\* Headers a client may send: none, a non-Bearer scheme, 'Bearer ' followed
\* by nothing, by text that is no JWT, by a forged token, or by the token
\* it holds.
HeldHeaders == IF held = NoToken THEN {} ELSE {Bearer(held), OtherScheme(held)}

Headers ==
  {NoHeader, OtherScheme(GarbageToken), Bearer(EmptyToken), Bearer(GarbageToken)}
  \cup {Bearer(t) : t \in ForgedTokens}
  \cup HeldHeaders

\* the row protect selects: id, email, full_name as "fullName", ...,
\* is_hoc as "isHoc"
UserOfRow(row) ==
  [id |-> row.id, email |-> row.email, fullName |-> row.full_name,
   department |-> row.department, academicYear |-> row.academic_year,
   isHoc |-> row.is_hoc]

\* the 401 of protect's catch block, by error name
ProtectCatch(name) ==
  IF name = "JsonWebTokenError"
  THEN sendError("Not authorized, token failed.", 401)
  ELSE IF name = "TokenExpiredError"
  THEN sendError("Not authorized, token expired.", 401)
  ELSE sendError("Not authorized, token invalid.", 401)

\* variant: any Authorization header is taken to carry a token
startsWithAnyScheme(authHeader) == authHeader.present

\* authHeader && authHeader.startsWith('Bearer ')
startsWithBearer(authHeader) == authHeader.present /\ authHeader.bearer

\* the middleware after protect on the route's mount
AfterProtect(route) == IF route \in HocRoutes THEN "hocOnly" ELSE route

\* what a run of protect has done: the calls of next, the responses sent,
\* req.user, and whether the function has returned
ProtectRun(nexts, sent, user, returned) ==
  [nexts |-> nexts, sent |-> sent, user |-> user, returned |-> returned]

\* variant: the 401 for a missing user does not return, and next is called
protectTryFallsThrough(authHeader, table, clock) ==
  LET decoded == jwtVerify(authHeader.cred, JWT_SECRET, clock)
      rows == SelectUsersById(table, decoded.userId)
  IN IF ~decoded.ok
     THEN ProtectRun(0, <<ProtectCatch(decoded.name)>>, NoUser, TRUE)
     ELSE IF Len(rows) = 0
     THEN ProtectRun(1, <<sendError("Not authorized, user not found.", 401)>>, NoUser, FALSE)
     ELSE ProtectRun(1, <<>>, UserOfRow(rows[1]), FALSE)

\* protect: the try block and its catch
protectTry(authHeader, table, clock) ==
  LET decoded == jwtVerify(authHeader.cred, JWT_SECRET, clock)
      rows == SelectUsersById(table, decoded.userId)
  IN IF ~decoded.ok
     THEN ProtectRun(0, <<ProtectCatch(decoded.name)>>, NoUser, TRUE)
     ELSE IF Len(rows) = 0
     THEN ProtectRun(0, <<sendError("Not authorized, user not found.", 401)>>, NoUser, TRUE)
     ELSE ProtectRun(1, <<>>, UserOfRow(rows[1]), FALSE)

\* !token: undefined, or the empty text after 'Bearer '
FalsyToken(token) == token.kind \in {"none", "empty"}

\* protect from its first statement to its return: the try block when the
\* header starts with 'Bearer ', then the check of the token variable
protectRun(authHeader, table, clock) ==
  LET token == IF startsWithBearer(authHeader) THEN authHeader.cred ELSE NoToken
      try == IF startsWithBearer(authHeader)
             THEN protectTry(authHeader, table, clock)
             ELSE ProtectRun(0, <<>>, NoUser, FALSE)
  IN IF ~try.returned /\ FalsyToken(token)
     THEN [try EXCEPT !.sent = Append(@, sendError("Not authorized, no token provided.", 401)),
                      !.returned = TRUE]
     ELSE try

\* middleware/authMiddleware.js: protect
protect(r, route, authHeader, body) ==
  /\ Free(r)
  /\ LET run == protectRun(authHeader, users, now)
     IN reqs' = [reqs EXCEPT ![r] =
                   [IdleReq EXCEPT !.pc = IF run.nexts > 0 THEN AfterProtect(route) ELSE "done",
                                   !.route = route, !.hdr = authHeader, !.body = body,
                                   !.user = run.user,
                                   !.res = IF run.sent = <<>> THEN NoRes ELSE run.sent[1]]]
  /\ UNCHANGED <<users, classes, now, held, creds, heldDenied, notifVars, sysVars>>

\* variant: every authenticated user passes the role check
IsHocUserAnyUser(req) == req.user # NoUser

\* the role check of hocOnly
IsHocUser(req) == req.user # NoUser /\ req.user.isHoc = TRUE

\* middleware/authMiddleware.js: hocOnly
hocOnly(r) ==
  /\ reqs[r].pc = "hocOnly"
  /\ IF IsHocUser(reqs[r])
     THEN /\ Goto(r, reqs[r].route)
          /\ UNCHANGED heldDenied
     ELSE /\ Respond(r, sendError("Forbidden: Head of Class privileges required.", 403))
          /\ heldDenied' = (heldDenied \/ reqs[r].hdr.cred = held)
  /\ UNCHANGED <<users, classes, now, held, creds, notifVars, sysVars>>

\* routes/homepage.js: GET /api/home/dashboard (the response carries the
\* caller's id and HOC flag from req.user)
HomeDashboard(r) ==
  /\ reqs[r].pc = "home:dashboard"
  /\ Respond(r, sendSuccess([NoData EXCEPT !.userId = reqs[r].user.id,
                                           !.isHoc = reqs[r].user.isHoc], 200))
  /\ UNCHANGED <<users, classes, now, held, creds, heldDenied, notifVars, sysVars>>

\* routes/HOC.js: GET /api/hoc/test
HocTest(r) ==
  /\ reqs[r].pc = "hoc:test"
  /\ Respond(r, sendSuccess([NoData EXCEPT !.message = "HOC access verified successfully",
                                           !.isHoc = reqs[r].user.isHoc], 200))
  /\ UNCHANGED <<users, classes, now, held, creds, heldDenied, notifVars, sysVars>>

\* routes/HOC.js: POST /api/hoc/force-enable-hoc
\* UPDATE users SET is_hoc = TRUE WHERE id = $1 RETURNING id
ForceEnableHoc(r) ==
  /\ reqs[r].pc = "hoc:force-enable-hoc"
  /\ LET userIdToUpdate == reqs[r].user.id IN
       IF userIdToUpdate \in 1..Len(users)
       THEN /\ users' = [users EXCEPT ![userIdToUpdate].is_hoc = TRUE]
            /\ Respond(r, sendSuccess(Message("Head of Class privileges forcefully activated!"), 200))
       ELSE /\ Respond(r, sendError("User not found", 404))
            /\ UNCHANGED users
  /\ UNCHANGED <<classes, now, held, creds, heldDenied, notifVars, sysVars>>

\* ------------------------------------------------------------------------
\* Environment
\* ------------------------------------------------------------------------
\* Credential Store setRole(id, isHoc): the role flag is set outside the
\* routes of this server.
setRole(id, isHoc) ==
  /\ id \in 1..Len(users)
  /\ users[id].is_hoc # isHoc
  /\ users' = [users EXCEPT ![id].is_hoc = isHoc]
  /\ UNCHANGED <<classes, now, reqs, held, creds, heldDenied, notifVars, sysVars>>

Tick ==
  /\ now < MaxClock
  /\ now' = now + 1
  /\ UNCHANGED <<users, classes, reqs, held, creds, heldDenied, notifVars, sysVars>>

\* the client has read the response; the slot is free again
Finish(r) ==
  /\ reqs[r].pc = "done"
  /\ reqs' = [reqs EXCEPT ![r] = IdleReq]
  /\ UNCHANGED <<users, classes, now, held, creds, heldDenied, notifVars, sysVars>>

\* ------------------------------------------------------------------------
\* Spec: signup, login and a protected request with the token of the login
\* ------------------------------------------------------------------------
\* the server is up: the secret is set, connectWithRetry has returned and
\* released its client, app.listen has been called
NoClient == 0

\* no signal has been received: the HTTP server and the pool are as started
NotDown ==
  [signals |-> 0, http |-> "listening", pool |-> "open", closePool |-> "none",
   timer |-> "off"]

\* routes/hoc.js: the clients and the routes behind withRateLimit
Ips == {"ip1", "ip2"}
LimitedRoutes == {"limited", "secure-data"}
Times == 0..MaxMs

\* const rateLimitMap = new Map(): no ip has an entry; no request yet
NoLimits ==
  /\ rateLimitMap = [ip \in Ips |-> <<>>]
  /\ passed = [k \in Ips \X LimitedRoutes \X Times |-> 0]
  /\ lastLimit = [ip |-> "", route |-> "", status |-> 0]
  /\ ms = 0

\* how the promise of a call settles
Unsettled == [kind |-> "none", value |-> ""]
Resolve(value) == [kind |-> "resolved", value |-> value]
Reject(err) == [kind |-> "rejected", value |-> err]

\* no call of transaction: log is the statements the last call has issued,
\* caught the error its catch block has caught, settled its outcome
IdleTxn ==
  [pc |-> "idle", client |-> NoClient, log |-> <<>>, caught |-> "",
   pending |-> Unsettled, settled |-> Unsettled]

Serving ==
  /\ secretSet = TRUE
  /\ server = [pc |-> "listening", attempt |-> 1, attempts |-> 1, delays |-> 0,
              client |-> NoClient, exitCode |-> 0]
  /\ txn = IdleTxn
  /\ clients = <<1>>
  /\ down = NotDown
  /\ NoLimits

\* the notification tables are empty and nothing has been pushed
NoNotifications ==
  /\ notifications = {}
  /\ notifSeq = 0
  /\ push_tokens = {}
  /\ user_push_tokens = {}
  /\ enrollments = {}
  /\ notifications_enabled = {}
  /\ outbox = {}
  /\ removing = {}

Init ==
  /\ users = <<>>
  /\ classes = <<>>
  /\ now = 0
  /\ reqs = [r \in 1..MaxReq |-> IdleReq]
  /\ held = NoToken
  /\ creds = {}
  /\ heldDenied = FALSE
  /\ NoNotifications
  /\ Serving

Next ==
  \/ \E r \in ReqIds : \E body \in SignupBodies : SignupSelect(r, body)
  \/ \E r \in ReqIds : SignupInsert(r)
  \/ \E r \in ReqIds : \E body \in LoginBodies : LoginSelect(r, body)
  \/ \E r \in ReqIds : LoginCompare(r)
  \/ \E r \in ReqIds : \E hdr \in {NoHeader} \cup HeldHeaders :
       protect(r, "home:dashboard", hdr, NoBody)
  \/ \E r \in ReqIds : HomeDashboard(r)
  \/ \E r \in ReqIds : Finish(r)
  \/ Tick

Spec == Init /\ [][Next]_vars

\* ------------------------------------------------------------------------
\* SpecGate: the auth gate and the role check, over the users two signups
\* have stored
\* ------------------------------------------------------------------------
SeedBodies ==
  <<[fullName |-> "Ada", email |-> EmailLower, password |-> "secret1",
     department |-> "CS", academicYear |-> "2"],
    [fullName |-> "Ada", email |-> EmailOther, password |-> "hunter22",
     department |-> "CS", academicYear |-> "2"]>>

SeedUsers ==
  LET first == SignupRow(<<>>, SeedBodies[1], "s1")
  IN <<first, SignupRow(<<first>>, SeedBodies[2], "s1")>>

InitGate ==
  /\ users = SeedUsers
  /\ classes = <<>>
  /\ now = 0
  /\ reqs = [r \in 1..MaxReq |-> IdleReq]
  /\ held = NoToken
  /\ creds = {<<SeedBodies[i].email, SeedBodies[i].password>> : i \in 1..2}
  /\ heldDenied = FALSE
  /\ NoNotifications
  /\ Serving

NextGate ==
  \/ \E r \in ReqIds : \E i \in 1..2 :
       LoginSelect(r, [email |-> SeedBodies[i].email, password |-> SeedBodies[i].password])
  \/ \E r \in ReqIds : LoginCompare(r)
  \/ \E r \in ReqIds : \E route \in {"home:dashboard", "hoc:test", "hoc:force-enable-hoc"} :
     \E hdr \in Headers : protect(r, route, hdr, NoBody)
  \/ \E r \in ReqIds : hocOnly(r)
  \/ \E r \in ReqIds : HomeDashboard(r)
  \/ \E r \in ReqIds : HocTest(r)
  \/ \E r \in ReqIds : ForceEnableHoc(r)
  \/ \E r \in ReqIds : Finish(r)
  \/ \E id \in 1..Len(users) : \E isHoc \in BOOLEAN : setRole(id, isHoc)
  \/ Tick

SpecGate == InitGate /\ [][NextGate]_vars

\* ------------------------------------------------------------------------
\* routes/HOC.js: the class routes.  The router is mounted behind protect
\* and hocOnly, so req.user is the stored record of a user whose is_hoc is
\* true; a request enters here at its handler.
\* ------------------------------------------------------------------------
GateUsers == {UserOfRow(users[i]) : i \in {j \in 1..Len(users) : users[j].is_hoc}}

NaN == 0 - 1

\* parseInt(text, 10) of the texts the clients send
parseInt(text) ==
  CASE text = "0" -> 0
    [] text = "1" -> 1
    [] text = "2" -> 2
    [] text = "3" -> 3
    [] text = "30" -> 30
    [] text = "60" -> 60
    [] text = "60min" -> 60
    [] text = "60.5" -> 60
    [] text = "30.5" -> 30
    [] OTHER -> NaN

\* !n of a number: 0 and NaN are falsy
Falsy(n) == n = 0 \/ n = NaN

\* String.prototype.trim
trim(text) == IF text = " " THEN "" ELSE text

\* new Date(text): a date "YYYY-MM-DD", a separator ("T" or " "), a time
\* "HH:MM" and an optional ":00"; anything else is an Invalid Date.
InvalidDate == [date |-> "", time |-> ""]
IsDateText(text) == text \in {"2025-03-01", "2025-03-02"}
IsTimeText(text) == text \in {"10:00", "11:00"}
NewDate(parts) ==
  IF /\ Len(parts) \in {3, 4}
     /\ IsDateText(parts[1])
     /\ parts[2] \in {"T", " "}
     /\ IsTimeText(parts[3])
     /\ (Len(parts) = 4 => parts[4] = ":00")
  THEN [date |-> parts[1], time |-> parts[3]]
  ELSE InvalidDate

\* variant: only a cancelled class is final
TerminalOnlyCancelled(status) == status = "cancelled"

\* status IN ('cancelled', 'completed')
Terminal(status) == status = "cancelled" \/ status = "completed"

\* variant: the UPDATE without the ownership condition
UpdatableAnyOwner(table, classId, hocUserId) ==
  {i \in 1..Len(table) : table[i].id = classId /\ ~Terminal(table[i].status)}

\* variant: the UPDATE without the condition on the status
UpdatableAnyStatus(table, classId, hocUserId) ==
  {i \in 1..Len(table) : table[i].id = classId /\ table[i].hoc_id = hocUserId}

\* the rows an UPDATE classes ... WHERE id = $1 AND hoc_id = $2 AND status
\* NOT IN ('cancelled', 'completed') changes
Updatable(table, classId, hocUserId) ==
  {i \in 1..Len(table) :
     /\ table[i].id = classId
     /\ table[i].hoc_id = hocUserId
     /\ ~Terminal(table[i].status)}

\* SELECT id, status FROM classes WHERE id = $1
SelectClassesById(table, classId) ==
  SelectSeq(table, LAMBDA row : row.id = classId)

\* a request enters at its handler with req.user set by the gate
Enter(r, route, user, body, label, response) ==
  reqs' = [reqs EXCEPT ![r] =
             [IdleReq EXCEPT !.pc = label, !.route = route, !.user = user,
                             !.body = body, !.res = response]]

\* POST /api/hoc/create-class
CreateClass(r, user, body) ==
  /\ Free(r)
  /\ user \in GateUsers
  /\ LET hocUserId == user.id
         durationMinutes == parseInt(body.duration)
         maxStudentsNum == parseInt(body.maxStudents)
         startTime == NewDate(<<body.date, "T", body.time, ":00">>)
         row == [id |-> Len(classes) + 1, hoc_id |-> hocUserId,
                 class_name |-> body.className, start_time |-> startTime,
                 duration_minutes |-> durationMinutes, location |-> body.room,
                 max_students |-> maxStudentsNum, status |-> "scheduled"]
         Reply(response) == Enter(r, "hoc:create-class", user, body, "done", response)
     IN IF body.className = "" \/ body.date = "" \/ body.time = "" \/ body.room = ""
        THEN Reply(sendError("Class Name, Date, Time, and Room are required.", 400)) /\ UNCHANGED classes
        ELSE IF durationMinutes = NaN \/ durationMinutes <= 0
        THEN Reply(sendError("Duration must be > 0.", 400)) /\ UNCHANGED classes
        ELSE IF maxStudentsNum = NaN \/ maxStudentsNum <= 0
        THEN Reply(sendError("Max Students must be > 0.", 400)) /\ UNCHANGED classes
        ELSE IF startTime = InvalidDate
        THEN Reply(sendError("Invalid date/time format. Use YYYY-MM-DD and HH:MM.", 400)) /\ UNCHANGED classes
        ELSE /\ Len(classes) < MaxClasses
             /\ classes' = Append(classes, row)
             /\ Reply(sendSuccess([NoData EXCEPT !.userId = row.id], 201))
  /\ UNCHANGED <<users, now, held, creds, heldDenied, notifVars, sysVars>>

\* the record my-classes returns for a row: the selected columns, room as
\* a second name of location, max_students || 30; no route of the model
\* enrols a student, so the count of the LEFT JOIN is 0
MyClassRecord(row) ==
  [id |-> row.id, class_name |-> row.class_name, start_time |-> row.start_time,
   duration_minutes |-> row.duration_minutes, location |-> row.location,
   room |-> row.location,
   max_students |-> IF Falsy(row.max_students) THEN 30 ELSE row.max_students,
   status |-> row.status, enrolled_students |-> 0]

\* GET /api/hoc/my-classes: SELECT ... WHERE c.hoc_id = $1; the order of
\* the rows (ORDER BY start_time DESC, class_name ASC) is not kept
MyClasses(r, user) ==
  /\ Free(r)
  /\ user \in GateUsers
  /\ LET hocUserId == user.id
         result == {i \in 1..Len(classes) : classes[i].hoc_id = hocUserId}
     IN Enter(r, "hoc:my-classes", user, NoBody, "done",
              sendSuccess([NoData EXCEPT !.rows = {MyClassRecord(classes[i]) : i \in result}], 200))
  /\ UNCHANGED <<users, classes, now, held, creds, heldDenied, notifVars, sysVars>>

\* POST /api/hoc/cancel-class: validation and the UPDATE
CancelClass(r, user, body) ==
  /\ Free(r)
  /\ user \in GateUsers
  /\ LET hocUserId == user.id
         classIdInt == parseInt(body.classId)
         hit == Updatable(classes, classIdInt, hocUserId)
         Reply(response) == Enter(r, "hoc:cancel-class", user, body, "done", response)
     IN IF Falsy(classIdInt) \/ body.reason = "" \/ trim(body.reason) = ""
        THEN Reply(sendError("Class ID and Reason are required.", 400)) /\ UNCHANGED classes
        ELSE IF hit = {}
        THEN Enter(r, "hoc:cancel-class", user, body, "cancel:check", NoRes) /\ UNCHANGED classes
        ELSE /\ classes' = [i \in 1..Len(classes) |->
                              IF i \in hit THEN [classes[i] EXCEPT !.status = "cancelled"]
                              ELSE classes[i]]
             /\ Reply(sendSuccess(Message("Class cancelled successfully"), 200))
  /\ UNCHANGED <<users, now, held, creds, heldDenied, notifVars, sysVars>>

\* POST /api/hoc/cancel-class: the UPDATE changed no row; the SELECT that
\* tells why
CancelCheck(r) ==
  /\ reqs[r].pc = "cancel:check"
  /\ LET check == SelectClassesById(classes, parseInt(reqs[r].body.classId)) IN
       IF Len(check) = 0
       THEN Respond(r, sendError("Class not found.", 404))
       ELSE IF Terminal(check[1].status)
       THEN Respond(r, sendError("Class already completed or cancelled.", 400))
       ELSE Respond(r, sendError("You are not authorized to cancel this class.", 403))
  /\ UNCHANGED <<users, classes, now, held, creds, heldDenied, notifVars, sysVars>>

\* variant: the UPDATE sets the time and the status, not the room
RescheduledRowKeepsRoom(row, startTime, newRoom) ==
  [row EXCEPT !.start_time = startTime, !.status = "rescheduled"]

\* UPDATE classes SET start_time = $1, location = $2, status = 'rescheduled'
RescheduledRow(row, startTime, newRoom) ==
  [row EXCEPT !.start_time = startTime, !.location = newRoom, !.status = "rescheduled"]

\* POST /api/hoc/reschedule-class: validation and the UPDATE
RescheduleClass(r, user, body) ==
  /\ Free(r)
  /\ user \in GateUsers
  /\ LET hocUserId == user.id
         classIdInt == parseInt(body.classId)
         startTime == NewDate(body.newTime)
         hit == Updatable(classes, classIdInt, hocUserId)
         Reply(response) == Enter(r, "hoc:reschedule-class", user, body, "done", response)
     IN IF Falsy(classIdInt) \/ body.newTime = <<>> \/ body.newRoom = ""
        THEN Reply(sendError("Class ID, New Time (YYYY-MM-DD HH:MM), and New Room are required.", 400)) /\ UNCHANGED classes
        ELSE IF startTime = InvalidDate
        THEN Reply(sendError("Invalid new time format. Use \"YYYY-MM-DD HH:MM\".", 400)) /\ UNCHANGED classes
        ELSE IF hit = {}
        THEN Enter(r, "hoc:reschedule-class", user, body, "reschedule:check", NoRes) /\ UNCHANGED classes
        ELSE /\ classes' = [i \in 1..Len(classes) |->
                              IF i \in hit
                              THEN RescheduledRow(classes[i], startTime, body.newRoom)
                              ELSE classes[i]]
             /\ Reply(sendSuccess(Message("Class rescheduled successfully"), 200))
  /\ UNCHANGED <<users, now, held, creds, heldDenied, notifVars, sysVars>>

\* POST /api/hoc/reschedule-class: the SELECT after an UPDATE of no row
RescheduleCheck(r) ==
  /\ reqs[r].pc = "reschedule:check"
  /\ LET check == SelectClassesById(classes, parseInt(reqs[r].body.classId)) IN
       IF Len(check) = 0
       THEN Respond(r, sendError("Class not found.", 404))
       ELSE IF Terminal(check[1].status)
       THEN Respond(r, sendError("Cannot reschedule completed or cancelled class.", 400))
       ELSE Respond(r, sendError("You are not authorized to reschedule this class.", 403))
  /\ UNCHANGED <<users, classes, now, held, creds, heldDenied, notifVars, sysVars>>

\* the rows the earlier revision's UPDATE classes ... WHERE id = $1 AND
\* hoc_user_id = $2 changes: no condition on the status
LegacyUpdatable(table, classId, hocUserId) ==
  {i \in 1..Len(table) : table[i].id = classId /\ table[i].hoc_id = hocUserId}

\* unnamed/part_004: POST /api/hoc/cancel-class of the earlier revision;
\* res.json({success, message}) carries the message beside the flag
LegacyCancelClass(r, user, body) ==
  /\ Free(r)
  /\ user \in GateUsers
  /\ LET hocUserId == user.id
         hit == LegacyUpdatable(classes, parseInt(body.classId), hocUserId)
         Reply(response) == Enter(r, "legacy:cancel-class", user, body, "done", response)
     IN IF body.classId = "" \/ body.reason = ""
        THEN Reply(sendError("Class ID and reason are required", 400)) /\ UNCHANGED classes
        ELSE IF hit = {}
        THEN /\ Reply(sendError("Class not found or you do not have permission to cancel it", 403))
             /\ UNCHANGED classes
        ELSE /\ classes' = [i \in 1..Len(classes) |->
                              IF i \in hit THEN [classes[i] EXCEPT !.status = "cancelled"]
                              ELSE classes[i]]
             /\ Reply(sendSuccess(Message("Class cancelled successfully"), 200))
  /\ UNCHANGED <<users, now, held, creds, heldDenied, notifVars, sysVars>>

\* unnamed/part_004: POST /api/hoc/reschedule-class of the earlier
\* revision; newTime goes to the database as text, which rejects text that
\* is no timestamp (the catch answers 500)
LegacyRescheduleClass(r, user, body) ==
  /\ Free(r)
  /\ user \in GateUsers
  /\ LET hocUserId == user.id
         startTime == NewDate(body.newTime)
         hit == LegacyUpdatable(classes, parseInt(body.classId), hocUserId)
         Reply(response) == Enter(r, "legacy:reschedule-class", user, body, "done", response)
     IN IF body.classId = "" \/ body.newTime = <<>> \/ body.newRoom = ""
        THEN Reply(sendError("Class ID, new time, and new room are required", 400)) /\ UNCHANGED classes
        ELSE IF startTime = InvalidDate
        THEN Reply(sendError("Server error while rescheduling class", 500)) /\ UNCHANGED classes
        ELSE IF hit = {}
        THEN /\ Reply(sendError("Class not found or you do not have permission to reschedule it", 403))
             /\ UNCHANGED classes
        ELSE /\ classes' = [i \in 1..Len(classes) |->
                              IF i \in hit
                              THEN [classes[i] EXCEPT !.start_time = startTime,
                                                      !.location = body.newRoom,
                                                      !.status = "rescheduled"]
                              ELSE classes[i]]
             /\ Reply(sendSuccess(Message("Class rescheduled successfully"), 200))
  /\ UNCHANGED <<users, now, held, creds, heldDenied, notifVars, sysVars>>

\* Class status 'completed': no route writes it; a class that has taken
\* place is marked outside this server.
CompleteClass(id) ==
  /\ id \in 1..Len(classes)
  /\ ~Terminal(classes[id].status)
  /\ classes' = [classes EXCEPT ![id].status = "completed"]
  /\ UNCHANGED <<users, now, reqs, held, creds, heldDenied, notifVars, sysVars>>

\* ------------------------------------------------------------------------
\* SpecClass: concurrent class requests of two Heads of Class
\* ------------------------------------------------------------------------
CreateBodies ==
  [className : {"Algebra", ""}, date : {"2025-03-01"}, time : {"10:00", "10am"},
   duration : {"60"}, room : {"R1"}, maxStudents : {"30"}]

ClassIdTexts == {"0", "1", "2", "3"}
ClassIdInputs == {t \in ClassIdTexts : parseInt(t) <= MaxClasses + 1}

CancelBodies == [classId : ClassIdInputs, reason : {"sick", " "}]

RescheduleBodies ==
  [classId : ClassIdInputs,
   newTime : {<<"2025-03-02", " ", "11:00">>, <<"soon">>},
   newRoom : {"R2", ""}]

SeedHocUsers == [i \in 1..2 |-> [SeedUsers[i] EXCEPT !.is_hoc = TRUE]]

InitClass ==
  /\ users = SeedHocUsers
  /\ classes = <<>>
  /\ now = 0
  /\ reqs = [r \in 1..MaxClassReq |-> IdleReq]
  /\ held = NoToken
  /\ creds = {<<SeedBodies[i].email, SeedBodies[i].password>> : i \in 1..2}
  /\ heldDenied = FALSE
  /\ NoNotifications
  /\ Serving

NextClass ==
  \/ \E r \in ReqIds : \E user \in GateUsers : \E body \in CreateBodies :
       CreateClass(r, user, body)
  \/ \E r \in ReqIds : \E user \in GateUsers : \E body \in CancelBodies :
       CancelClass(r, user, body)
  \/ \E r \in ReqIds : CancelCheck(r)
  \/ \E r \in ReqIds : \E user \in GateUsers : \E body \in RescheduleBodies :
       RescheduleClass(r, user, body)
  \/ \E r \in ReqIds : RescheduleCheck(r)
  \/ \E r \in ReqIds : Finish(r)
  \/ \E id \in 1..Len(classes) : CompleteClass(id)

SpecClass == InitClass /\ [][NextClass]_vars

\* ------------------------------------------------------------------------
\* SpecMyClasses: classes are created, listed and cancelled
\* ------------------------------------------------------------------------
RoundTripBodies ==
  [className : {"Algebra"}, date : {"2025-03-01", "2025-03-02"}, time : {"10:00"},
   duration : {"60", "60.5", "0"}, room : {"R1"}, maxStudents : {"30", "30.5"}]

NextMyClasses ==
  \/ \E r \in ReqIds : \E user \in GateUsers : \E body \in RoundTripBodies :
       CreateClass(r, user, body)
  \/ \E r \in ReqIds : \E user \in GateUsers : MyClasses(r, user)
  \/ \E r \in ReqIds : \E user \in GateUsers :
       CancelClass(r, user, [classId |-> "1", reason |-> "sick"])
  \/ \E r \in ReqIds : CancelCheck(r)
  \/ \E r \in ReqIds : Finish(r)

SpecMyClasses == InitClass /\ [][NextMyClasses]_vars

\* ------------------------------------------------------------------------
\* SpecClassAll: the class requests served by either revision of the cancel
\* and reschedule handlers
\* ------------------------------------------------------------------------
NextClassAll ==
  \/ NextClass
  \/ \E r \in ReqIds : \E user \in GateUsers : \E body \in CancelBodies :
       LegacyCancelClass(r, user, body)
  \/ \E r \in ReqIds : \E user \in GateUsers : \E body \in RescheduleBodies :
       LegacyRescheduleClass(r, user, body)

SpecClassAll == InitClass /\ [][NextClassAll]_vars

\* ------------------------------------------------------------------------
\* routes/notifications.js, mounted at /api/notifications behind protect
\* ------------------------------------------------------------------------
HocNotificationRoutes ==
  {"notif:log-notification", "notif:send-class-notification",
   "notif:broadcast-notification"}

\* pushToken.startsWith('ExponentPushToken[')
ExpoTokens == {"ExponentPushToken[a]", "ExponentPushToken[b]"}
startsWithExpo(token) == token \in ExpoTokens

\* the rows a statement INSERT INTO notifications (user_id, .., source,
\* is_read, ..) adds, one for each of userIds; the sequence gives the ids
NotificationRows(seq, userIds, source, isRead) ==
  {[id |-> seq + Cardinality({v \in userIds : v <= u}), user_id |-> u,
    source |-> source, is_read |-> isRead] : u \in userIds}

\* variant: the students of the classes, whatever their preference
StudentsOfAnyPreference(classIds) ==
  {u \in 1..Len(users) : \E e \in enrollments : e.student_id = u /\ e.class_id \in classIds}

\* `Notification processed. Logged for ${dbLogCount} students. ...`
Processed(dbLogCount) ==
  [NoData EXCEPT !.message = "Notification processed.", !.logged = dbLogCount]

\* u.id, pt.token of users u JOIN enrollments e LEFT JOIN push_tokens pt
\* WHERE e.class_id is one of classIds AND u.notifications_enabled = TRUE
StudentsOf(classIds) ==
  {u \in 1..Len(users) :
     /\ \E e \in enrollments : e.student_id = u /\ e.class_id \in classIds
     /\ u \in notifications_enabled}

\* rows.map(row => row.token).filter(Boolean)
TokensOf(userIds) == {pt.token : pt \in {x \in push_tokens : x.user_id \in userIds}}

\* POST /api/notifications/log-notification
LogNotification(r) ==
  /\ reqs[r].pc = "notif:log-notification"
  /\ LET hocUserId == reqs[r].user.id
         body == reqs[r].body
     IN IF body.title = "" \/ body.message = ""
        THEN /\ Respond(r, sendError("Title and message are required for logging.", 400))
             /\ UNCHANGED <<notifications, notifSeq>>
        ELSE /\ notifSeq < MaxNotifs
             /\ notifications' = notifications \cup
                                   NotificationRows(notifSeq, {hocUserId}, "hoc", TRUE)
             /\ notifSeq' = notifSeq + 1
             /\ Respond(r, sendSuccess(Message("Notification logged for sender."), 201))
  /\ UNCHANGED <<users, classes, now, held, creds, heldDenied, push_tokens,
                 user_push_tokens, enrollments, notifications_enabled, outbox, removing, sysVars>>

\* the handler has logged the notification for the students: it responds,
\* or waits for the push provider when there are tokens to send to
LogAndSend(r, students, done) ==
  LET pushTokens == TokensOf(students) IN
    /\ notifSeq + Cardinality(students) <= MaxNotifs
    /\ notifications' = notifications \cup
                          NotificationRows(notifSeq, students, "hoc", FALSE)
    /\ notifSeq' = notifSeq + Cardinality(students)
    /\ IF pushTokens = {}
       THEN done
       ELSE reqs' = [reqs EXCEPT ![r] = [@ EXCEPT !.pc = "notif:push", !.tokens = pushTokens,
                                                 !.logged = Cardinality(students)]]

\* POST /api/notifications/send-class-notification: validation, the SELECT
\* of the class by id and hoc_id, the students, the rows logged for them.
\* Of the counts in the message of the response, dbLogCount is kept.
SendClassNotification(r) ==
  /\ reqs[r].pc = "notif:send-class-notification"
  /\ LET hocUserId == reqs[r].user.id
         body == reqs[r].body
         classIdInt == parseInt(body.classId)
         verifyResult == {i \in 1..Len(classes) :
                            classes[i].id = classIdInt /\ classes[i].hoc_id = hocUserId}
     IN IF body.classId = "" \/ body.title = "" \/ body.message = ""
        THEN /\ Respond(r, sendError("Class ID, Title, and Message are required.", 400))
             /\ UNCHANGED <<notifications, notifSeq>>
        ELSE IF classIdInt = NaN
        THEN /\ Respond(r, sendError("Invalid Class ID format.", 400))
             /\ UNCHANGED <<notifications, notifSeq>>
        ELSE IF verifyResult = {}
        THEN /\ Respond(r, sendError("Class not found or you do not manage this class.", 403))
             /\ UNCHANGED <<notifications, notifSeq>>
        ELSE LogAndSend(r, StudentsOf({classIdInt}),
                        Respond(r, sendSuccess(Processed(Cardinality(StudentsOf({classIdInt}))), 200)))
  /\ UNCHANGED <<users, classes, now, held, creds, heldDenied, push_tokens,
                 user_push_tokens, enrollments, notifications_enabled, outbox, removing, sysVars>>

\* POST /api/notifications/broadcast-notification: validation, the students
\* of the caller's classes, the rows logged for them; with no token to send
\* to, the row logged for the caller and the response
BroadcastNotification(r) ==
  /\ reqs[r].pc = "notif:broadcast-notification"
  /\ LET hocUserId == reqs[r].user.id
         body == reqs[r].body
         students == StudentsOf({classes[i].id : i \in {j \in 1..Len(classes) :
                                                          classes[j].hoc_id = hocUserId}})
         pushTokens == TokensOf(students)
         logged == NotificationRows(notifSeq, students, "hoc", FALSE)
         seq == notifSeq + Cardinality(students)
     IN IF body.title = "" \/ body.message = ""
        THEN /\ Respond(r, sendError("Title and Message are required for broadcast.", 400))
             /\ UNCHANGED <<notifications, notifSeq>>
        ELSE IF pushTokens # {}
        THEN /\ seq <= MaxNotifs
             /\ notifications' = notifications \cup logged
             /\ notifSeq' = seq
             /\ reqs' = [reqs EXCEPT ![r] = [@ EXCEPT !.pc = "notif:push", !.tokens = pushTokens]]
        ELSE /\ seq < MaxNotifs
             /\ notifications' = notifications \cup logged \cup
                                   NotificationRows(seq, {hocUserId}, "hoc_sent", TRUE)
             /\ notifSeq' = seq + 1
             /\ Respond(r, sendSuccess(Message("Broadcast processed."), 200))
  /\ UNCHANGED <<users, classes, now, held, creds, heldDenied, push_tokens,
                 user_push_tokens, enrollments, notifications_enabled, outbox, removing, sysVars>>

\* the answers of the push provider to a send to validTokens: the request
\* fails, or a ticket for each token, some with the error DeviceNotRegistered
NoAnswer == [ok |-> FALSE, unregistered |-> {}]
ProviderAnswers(validTokens) ==
  {NoAnswer} \cup {[ok |-> TRUE, unregistered |-> bad] : bad \in SUBSET validTokens}

\* variant: a ticket with an error is logged and nothing else
UnregisteredIgnored(validTokens, answer) == {}

\* sendExpoPushNotifications: the tokens removeInvalidPushToken is called
\* with, its result not awaited
Unregistered(validTokens, answer) ==
  IF answer.ok THEN validTokens \cap answer.unregistered ELSE {}

\* the handler continues after sendExpoPushNotifications: an error is
\* logged; broadcast-notification logs the row for the caller; the response.
\* `tickets` of the request keeps the tokens the provider has reported as
\* DeviceNotRegistered.
PushSent(r, answer) ==
  /\ reqs[r].pc = "notif:push"
  /\ answer \in ProviderAnswers(reqs[r].tokens)
  /\ LET validTokens == {t \in reqs[r].tokens : startsWithExpo(t)}
         hocUserId == reqs[r].user.id
     IN /\ outbox' = IF answer.ok THEN outbox \cup validTokens ELSE outbox
        /\ removing' = removing \cup Unregistered(validTokens, answer)
        /\ IF reqs[r].route = "notif:broadcast-notification"
           THEN /\ notifSeq < MaxNotifs
                /\ notifications' = notifications \cup
                                      NotificationRows(notifSeq, {hocUserId}, "hoc_sent", TRUE)
                /\ notifSeq' = notifSeq + 1
                /\ reqs' = [reqs EXCEPT ![r] =
                              [@ EXCEPT !.pc = "done", !.tokens = {},
                                        !.tickets = answer.unregistered,
                                        !.res = sendSuccess(Message("Broadcast processed."), 200)]]
           ELSE /\ UNCHANGED <<notifications, notifSeq>>
                /\ reqs' = [reqs EXCEPT ![r] =
                              [@ EXCEPT !.pc = "done", !.tokens = {},
                                        !.tickets = answer.unregistered,
                                        !.res = sendSuccess(Processed(reqs[r].logged), 200)]]
  /\ UNCHANGED <<users, classes, now, held, creds, heldDenied, push_tokens,
                 user_push_tokens, enrollments, notifications_enabled, sysVars>>

\* removeInvalidPushToken: DELETE FROM push_tokens WHERE token = $1
removeInvalidPushToken(token) ==
  /\ token \in removing
  /\ push_tokens' = {pt \in push_tokens : pt.token # token}
  /\ removing' = removing \ {token}
  /\ UNCHANGED <<users, classes, now, reqs, held, creds, heldDenied, notifications,
                 notifSeq, user_push_tokens, enrollments, notifications_enabled, outbox, sysVars>>

\* variant: the statement names the row by its id alone
OwnNotificationAnyUser(table, notificationId, userId) ==
  {n \in table : n.id = notificationId}

\* the rows of a statement .. notifications .. WHERE id = $1 AND user_id = $2
OwnNotification(table, notificationId, userId) ==
  {n \in table : n.id = notificationId /\ n.user_id = userId}

\* POST /api/notifications/mark-as-read/:id
\* UPDATE notifications SET is_read = TRUE WHERE id = $1 AND user_id = $2
MarkAsRead(r) ==
  /\ reqs[r].pc = "notif:mark-as-read"
  /\ LET userId == reqs[r].user.id
         notificationId == parseInt(reqs[r].body.id)
         result == OwnNotification(notifications, notificationId, userId)
     IN IF notificationId = NaN
        THEN /\ Respond(r, sendError("Invalid notification ID provided.", 400))
             /\ UNCHANGED notifications
        ELSE /\ notifications' = (notifications \ result) \cup
                                   {[n EXCEPT !.is_read = TRUE] : n \in result}
             /\ IF result = {}
                THEN Respond(r, sendError("Notification not found or access denied.", 404))
                ELSE Respond(r, sendSuccess(Message("Notification marked as read."), 200))
  /\ UNCHANGED <<users, classes, now, held, creds, heldDenied, notifSeq, push_tokens,
                 user_push_tokens, enrollments, notifications_enabled, outbox, removing, sysVars>>

\* DELETE /api/notifications/delete-notification/:id
\* DELETE FROM notifications WHERE id = $1 AND user_id = $2
DeleteNotification(r) ==
  /\ reqs[r].pc = "notif:delete-notification"
  /\ LET userId == reqs[r].user.id
         notificationId == parseInt(reqs[r].body.id)
         result == OwnNotification(notifications, notificationId, userId)
     IN IF notificationId = NaN
        THEN /\ Respond(r, sendError("Invalid notification ID provided.", 400))
             /\ UNCHANGED notifications
        ELSE /\ notifications' = notifications \ result
             /\ IF result = {}
                THEN Respond(r, sendError("Notification not found or access denied.", 404))
                ELSE Respond(r, sendSuccess(Message("Notification deleted successfully."), 200))
  /\ UNCHANGED <<users, classes, now, held, creds, heldDenied, notifSeq, push_tokens,
                 user_push_tokens, enrollments, notifications_enabled, outbox, removing, sysVars>>

\* DELETE /api/notifications/clear-all
\* DELETE FROM notifications WHERE user_id = $1
ClearAll(r) ==
  /\ reqs[r].pc = "notif:clear-all"
  /\ LET userId == reqs[r].user.id IN
       /\ notifications' = {n \in notifications : n.user_id # userId}
       /\ Respond(r, sendSuccess(Message("All notifications cleared successfully."), 200))
  /\ UNCHANGED <<users, classes, now, held, creds, heldDenied, notifSeq, push_tokens,
                 user_push_tokens, enrollments, notifications_enabled, outbox, removing, sysVars>>

\* ------------------------------------------------------------------------
\* SpecNotif: the notification routes, called by a Head of Class (user 1)
\* and by two students enrolled in the class of user 1, each with a push
\* token registered
\* ------------------------------------------------------------------------
EmailThird == <<"c", "@", "b", ".", "c">>

NotifUsers ==
  LET third == SignupRow(SeedUsers, [SeedBodies[2] EXCEPT !.email = EmailThird], "s1")
  IN <<[SeedUsers[1] EXCEPT !.is_hoc = TRUE], SeedUsers[2], third>>

\* the row create-class stores for user 1
SeedClass ==
  [id |-> 1, hoc_id |-> 1, class_name |-> "Algebra",
   start_time |-> NewDate(<<"2025-03-01", "T", "10:00", ":00">>),
   duration_minutes |-> 60, location |-> "R1", max_students |-> 30,
   status |-> "scheduled"]

\* the headers of clients that have logged in: 'Bearer ' and the token
\* login has generated for a stored user
IssuedHeaders == {Bearer(generateToken(users[i].id, now)) : i \in 1..Len(users)}

NotifyBodies == [title : {"", "Exam"}, message : {"Monday"}]
ClassNotifyBodies == [classId : {"", "1", "2", "x"}, title : {"Exam"}, message : {"Monday"}]
NotificationIdBodies == [id : {"1", "2", "3", "x"}]

InitNotif ==
  /\ users = NotifUsers
  /\ classes = <<SeedClass>>
  /\ now = 0
  /\ reqs = [r \in 1..MaxReq |-> IdleReq]
  /\ held = NoToken
  /\ creds = {}
  /\ heldDenied = FALSE
  /\ notifications = {}
  /\ notifSeq = 0
  /\ push_tokens = {[user_id |-> 2, token |-> "ExponentPushToken[a]"],
                    [user_id |-> 3, token |-> "ExponentPushToken[b]"]}
  /\ user_push_tokens = {}
  /\ enrollments = {[student_id |-> 2, class_id |-> 1], [student_id |-> 3, class_id |-> 1]}
  /\ notifications_enabled = {2, 3}
  /\ outbox = {}
  /\ removing = {}
  /\ Serving

NextNotif ==
  \/ \E r \in ReqIds : \E hdr \in {NoHeader} \cup IssuedHeaders :
       \/ \E body \in NotifyBodies :
            \/ protect(r, "notif:log-notification", hdr, body)
            \/ protect(r, "notif:broadcast-notification", hdr, body)
       \/ \E body \in ClassNotifyBodies :
            protect(r, "notif:send-class-notification", hdr, body)
       \/ \E body \in NotificationIdBodies :
            \/ protect(r, "notif:mark-as-read", hdr, body)
            \/ protect(r, "notif:delete-notification", hdr, body)
       \/ protect(r, "notif:clear-all", hdr, NoBody)
  \/ \E r \in ReqIds : LogNotification(r)
  \/ \E r \in ReqIds : SendClassNotification(r)
  \/ \E r \in ReqIds : BroadcastNotification(r)
  \/ \E r \in ReqIds : \E answer \in ProviderAnswers(ExpoTokens) : PushSent(r, answer)
  \/ \E token \in ExpoTokens : removeInvalidPushToken(token)
  \/ \E r \in ReqIds : MarkAsRead(r)
  \/ \E r \in ReqIds : DeleteNotification(r)
  \/ \E r \in ReqIds : ClearAll(r)
  \/ \E r \in ReqIds : Finish(r)

SpecNotif == InitNotif /\ [][NextNotif]_vars

\* ------------------------------------------------------------------------
\* The push tokens of the users
\* ------------------------------------------------------------------------
\* INSERT INTO .. (user_id, token) VALUES ($1, $2) ON CONFLICT (user_id) DO
\* UPDATE SET token = EXCLUDED.token
Upsert(table, row) == {x \in table : x.user_id # row.user_id} \cup {row}

\* POST /api/notifications/register-token
RegisterToken(r) ==
  /\ reqs[r].pc = "notif:register-token"
  /\ LET pushToken == reqs[r].body.pushToken
         userId == reqs[r].user.id
     IN IF pushToken = "" \/ ~startsWithExpo(pushToken)
        THEN /\ Respond(r, sendError("A valid Expo push token (string) is required.", 400))
             /\ UNCHANGED push_tokens
        ELSE /\ push_tokens' = Upsert(push_tokens, [user_id |-> userId, token |-> pushToken])
             /\ Respond(r, sendSuccess(Message("Push token registered successfully."), 200))
  /\ UNCHANGED <<users, classes, now, held, creds, heldDenied, notifications, notifSeq,
                 user_push_tokens, enrollments, notifications_enabled, outbox, removing, sysVars>>

\* POST /api/notifications/unregister-token
\* DELETE FROM push_tokens WHERE user_id = $1
UnregisterToken(r) ==
  /\ reqs[r].pc = "notif:unregister-token"
  /\ LET userId == reqs[r].user.id IN
       /\ push_tokens' = {pt \in push_tokens : pt.user_id # userId}
       /\ Respond(r, sendSuccess(Message("Push token unregistered successfully."), 200))
  /\ UNCHANGED <<users, classes, now, held, creds, heldDenied, notifications, notifSeq,
                 user_push_tokens, enrollments, notifications_enabled, outbox, removing, sysVars>>

\* typeof notificationsEnabled === 'boolean', for the texts of the model
IsBooleanText(text) == text \in {"true", "false"}

\* POST /api/notifications/update-preference: validation and
\* UPDATE users SET notifications_enabled = $1 WHERE id = $2
UpdatePreference(r) ==
  /\ reqs[r].pc = "notif:update-preference"
  /\ LET userId == reqs[r].user.id
         notificationsEnabled == reqs[r].body.notificationsEnabled
     IN IF ~IsBooleanText(notificationsEnabled)
        THEN /\ Respond(r, sendError("Invalid preference value, boolean expected.", 400))
             /\ UNCHANGED notifications_enabled
        ELSE IF notificationsEnabled = "true"
        THEN /\ notifications_enabled' = notifications_enabled \cup {userId}
             /\ Respond(r, sendSuccess(Message("Notification preference updated successfully."), 200))
        ELSE /\ notifications_enabled' = notifications_enabled \ {userId}
             /\ Goto(r, "notif:preference-delete")
  /\ UNCHANGED <<users, classes, now, held, creds, heldDenied, notifications, notifSeq,
                 push_tokens, user_push_tokens, enrollments, outbox, removing, sysVars>>

\* POST /api/notifications/update-preference, notifications disabled:
\* DELETE FROM push_tokens WHERE user_id = $1
UpdatePreferenceDelete(r) ==
  /\ reqs[r].pc = "notif:preference-delete"
  /\ LET userId == reqs[r].user.id IN
       /\ push_tokens' = {pt \in push_tokens : pt.user_id # userId}
       /\ Respond(r, sendSuccess(Message("Notification preference updated successfully."), 200))
  /\ UNCHANGED <<users, classes, now, held, creds, heldDenied, notifications, notifSeq,
                 user_push_tokens, enrollments, notifications_enabled, outbox, removing, sysVars>>

\* utils/hash.js, the revision of routes/notifications.js in it:
\* POST /register-token, with no middleware before it and userId from the
\* body; INSERT INTO user_push_tokens .. ON CONFLICT (user_id) DO UPDATE
LegacyRegisterToken(r, authHeader, body) ==
  /\ Free(r)
  /\ user_push_tokens' = Upsert(user_push_tokens,
                                [user_id |-> body.userId, token |-> body.pushToken])
  /\ Arrive(r, "legacy:register-token", authHeader, body, "done",
            sendSuccess(Message("Push token registered successfully"), 200))
  /\ UNCHANGED <<users, classes, now, held, creds, heldDenied, notifications, notifSeq,
                 push_tokens, enrollments, notifications_enabled, outbox, removing, sysVars>>

\* ------------------------------------------------------------------------
\* SpecTokens: the three users register and unregister push tokens and set
\* their preference
\* ------------------------------------------------------------------------
PushTokenBodies == [pushToken : {"", "fcm-a"} \cup ExpoTokens]
PreferenceBodies == [notificationsEnabled : {"true", "false", "yes"}]
LegacyTokenBodies == [userId : {1, 2}, pushToken : ExpoTokens]

InitTokens ==
  /\ users = NotifUsers
  /\ classes = <<SeedClass>>
  /\ now = 0
  /\ reqs = [r \in 1..MaxReq |-> IdleReq]
  /\ held = NoToken
  /\ creds = {}
  /\ heldDenied = FALSE
  /\ NoNotifications
  /\ Serving

NextTokens ==
  \/ \E r \in ReqIds : \E hdr \in {NoHeader} \cup IssuedHeaders :
       \/ \E body \in PushTokenBodies : protect(r, "notif:register-token", hdr, body)
       \/ protect(r, "notif:unregister-token", hdr, NoBody)
       \/ \E body \in PreferenceBodies : protect(r, "notif:update-preference", hdr, body)
       \/ \E body \in LegacyTokenBodies : LegacyRegisterToken(r, hdr, body)
  \/ \E r \in ReqIds : RegisterToken(r)
  \/ \E r \in ReqIds : UnregisterToken(r)
  \/ \E r \in ReqIds : UpdatePreference(r)
  \/ \E r \in ReqIds : UpdatePreferenceDelete(r)
  \/ \E r \in ReqIds : Finish(r)

SpecTokens == InitTokens /\ [][NextTokens]_vars

\* ------------------------------------------------------------------------
\* SpecPush: the Head of Class sends to the students of the class, the
\* provider answers, and the calls of removeInvalidPushToken reach the
\* database. removeInvalidPushToken has passed its statement to the pool
\* when it returns to its caller, and the database answers every statement:
\* a pending removal is not postponed for ever.
\* ------------------------------------------------------------------------
NextPush ==
  \/ \E r \in ReqIds : \E hdr \in {NoHeader} \cup IssuedHeaders :
       \/ \E body \in NotifyBodies :
            protect(r, "notif:broadcast-notification", hdr, body)
       \/ \E body \in ClassNotifyBodies :
            protect(r, "notif:send-class-notification", hdr, body)
  \/ \E r \in ReqIds : SendClassNotification(r)
  \/ \E r \in ReqIds : BroadcastNotification(r)
  \/ \E r \in ReqIds : \E answer \in ProviderAnswers(ExpoTokens) : PushSent(r, answer)
  \/ \E token \in ExpoTokens : removeInvalidPushToken(token)
  \/ \E r \in ReqIds : Finish(r)

SpecPush ==
  /\ InitNotif
  /\ [][NextPush]_vars
  /\ \A token \in ExpoTokens : WF_vars(removeInvalidPushToken(token))

\* ------------------------------------------------------------------------
\* db.js: the pool, connectWithRetry, transaction; server.js: startServer
\* ------------------------------------------------------------------------
appVars == <<users, classes, now, reqs, held, creds, heldDenied, notifVars>>

rest == <<appVars, down, limitVars>>

\* pool.connect() resolves: a client that has not been released
Acquire == Append(clients, 0)

\* client.release()
Release(client) == [clients EXCEPT ![client] = @ + 1]

\* utils/jwt.js at the load of the modules: without JWT_SECRET the process
\* exits with code 1; else server.js runs to startServer() and its first
\* await
Load ==
  /\ server.pc = "load"
  /\ IF ~secretSet
     THEN server' = [server EXCEPT !.pc = "exited", !.exitCode = 1]
     ELSE server' = [server EXCEPT !.pc = "connect", !.attempt = 0]
  /\ UNCHANGED <<secretSet, txn, clients, rest>>

\* variant: the wait and the retry also follow the last attempt
AgainAtLast(attempt) == attempt <= retries

\* connectWithRetry, catch block: if (attempt < retries), wait and go on
Again(attempt) == attempt < retries

\* variant: the error of the last attempt is logged and not thrown
ExhaustedReturns(attempt) == FALSE

\* connectWithRetry, catch block: attempt < retries is false, the error is
\* thrown to startServer
Exhausted(attempt) == ~(attempt < retries)

\* connectWithRetry, catch block, attempt counted: wait and retry, or throw;
\* startServer catches and calls process.exit(1). With the error not thrown
\* connectWithRetry returns and startServer calls app.listen.
Failed(attempt) ==
  IF Again(attempt)
  THEN [server EXCEPT !.pc = "delay", !.attempt = attempt, !.client = NoClient,
                      !.delays = @ + 1]
  ELSE IF Exhausted(attempt)
  THEN [server EXCEPT !.pc = "exited", !.attempt = attempt, !.client = NoClient,
                      !.exitCode = 1]
  ELSE [server EXCEPT !.pc = "listening", !.attempt = attempt, !.client = NoClient]

\* connectWithRetry: an iteration of the loop begins, await pool.connect()
\* (attempts counts the iterations begun, delays the waits begun)
Connect(ok) ==
  /\ server.pc = "connect"
  /\ IF ok
     THEN /\ Len(clients) < MaxClients
          /\ clients' = Acquire
          /\ server' = [server EXCEPT !.pc = "query", !.client = Len(clients) + 1,
                                      !.attempts = @ + 1]
     ELSE /\ server' = [Failed(server.attempt + 1) EXCEPT !.attempts = @ + 1]
          /\ UNCHANGED clients
  /\ UNCHANGED <<secretSet, txn, rest>>

\* connectWithRetry: await client.query('SELECT NOW()'), then
\* client.release() and return; startServer calls app.listen. A query that
\* fails reaches the catch block.
Query(ok) ==
  /\ server.pc = "query"
  /\ IF ok
     THEN /\ clients' = Release(server.client)
          /\ server' = [server EXCEPT !.pc = "listening", !.client = NoClient]
     ELSE /\ server' = Failed(server.attempt + 1)
          /\ UNCHANGED clients
  /\ UNCHANGED <<secretSet, txn, rest>>

\* connectWithRetry: the timer of the delay fires, the loop goes on
Retry ==
  /\ server.pc = "delay"
  /\ server' = [server EXCEPT !.pc = "connect"]
  /\ UNCHANGED <<secretSet, txn, clients, rest>>

\* transaction(callback): await pool.connect(); a failure is thrown to the
\* caller before the try block
TxnConnect(ok) ==
  /\ server.pc = "listening"
  /\ down.http # "closed"
  /\ txn.pc = "idle"
  /\ IF ok
     THEN /\ Len(clients) < MaxClients
          /\ clients' = Acquire
          /\ txn' = [IdleTxn EXCEPT !.pc = "begin", !.client = Len(clients) + 1]
     ELSE UNCHANGED <<txn, clients>>
  /\ UNCHANGED <<secretSet, server, rest>>

\* the statement of the try block at a position, and the error of its failure
TxnStatement(pc) ==
  IF pc = "begin" THEN "BEGIN" ELSE IF pc = "callback" THEN "callback" ELSE "COMMIT"

TxnError(pc) ==
  IF pc = "begin" THEN "BeginError"
  ELSE IF pc = "callback" THEN "CallbackError" ELSE "CommitError"

\* transaction: BEGIN, callback(client), COMMIT and return result in the try
\* block; a failure of one is caught
TxnStep(ok) ==
  /\ server.pc = "listening"
  /\ txn.pc \in {"begin", "callback", "commit"}
  /\ txn' = [txn EXCEPT !.log = Append(@, TxnStatement(txn.pc)),
                        !.caught = IF ok THEN @ ELSE TxnError(txn.pc),
                        !.pending = IF ok /\ txn.pc = "commit" THEN Resolve("result") ELSE @,
                        !.pc = IF ~ok THEN "rollback"
                               ELSE IF txn.pc = "begin" THEN "callback"
                               ELSE IF txn.pc = "callback" THEN "commit"
                               ELSE "finally"]
  /\ UNCHANGED <<secretSet, server, clients, rest>>

\* variant: the error caught is thrown whatever ROLLBACK does
RollbackThrowsCaught(ok, caught) == Reject(caught)

\* transaction, catch block: await client.query('ROLLBACK'), then throw
\* error; a ROLLBACK that fails throws its own error from the catch block
RollbackThrows(ok, caught) == IF ok THEN Reject(caught) ELSE Reject("RollbackError")

TxnRollback(ok) ==
  /\ server.pc = "listening"
  /\ txn.pc = "rollback"
  /\ txn' = [txn EXCEPT !.log = Append(@, "ROLLBACK"),
                        !.pending = RollbackThrows(ok, txn.caught),
                        !.pc = "finally"]
  /\ UNCHANGED <<secretSet, server, clients, rest>>

\* transaction, finally block: client.release(); the promise of the call
\* settles with the result returned or the error thrown
TxnFinally ==
  /\ server.pc = "listening"
  /\ txn.pc = "finally"
  /\ clients' = Release(txn.client)
  /\ txn' = [txn EXCEPT !.pc = "idle", !.client = NoClient, !.settled = txn.pending]
  /\ UNCHANGED <<secretSet, server, rest>>

\* the process before the load of its modules, JWT_SECRET set or not
InitBoot ==
  /\ users = <<>>
  /\ classes = <<>>
  /\ now = 0
  /\ reqs = [r \in 1..MaxReq |-> IdleReq]
  /\ held = NoToken
  /\ creds = {}
  /\ heldDenied = FALSE
  /\ notifications = {}
  /\ notifSeq = 0
  /\ push_tokens = {}
  /\ user_push_tokens = {}
  /\ enrollments = {}
  /\ notifications_enabled = {}
  /\ outbox = {}
  /\ removing = {}
  /\ secretSet \in BOOLEAN
  /\ server = [pc |-> "load", attempt |-> 0, attempts |-> 0, delays |-> 0,
              client |-> NoClient, exitCode |-> 0]
  /\ txn = IdleTxn
  /\ clients = <<>>
  /\ down = NotDown
  /\ NoLimits

StartServer ==
  \/ Load
  \/ \E ok \in BOOLEAN : Connect(ok)
  \/ \E ok \in BOOLEAN : Query(ok)
  \/ Retry

NextBoot ==
  \/ StartServer
  \/ \E ok \in BOOLEAN : TxnConnect(ok)
  \/ \E ok \in BOOLEAN : TxnStep(ok)
  \/ \E ok \in BOOLEAN : TxnRollback(ok)
  \/ TxnFinally

SpecBoot == InitBoot /\ [][NextBoot]_vars

\* the event loop runs the continuation of startServer when the promise it
\* awaits is settled, and the pool and the timer settle theirs
SpecBootFair == SpecBoot /\ WF_vars(StartServer)

\* ------------------------------------------------------------------------
\* utils/asyncHandler.js: an exception of a route handler is passed to
\* next() and reaches the global error handler
\* ------------------------------------------------------------------------
\* unnamed/part_011: the global error handler of that revision of server.js
\* (the errorCode it passes to sendError is left out)
LegacyGlobalErrorHandler(err) ==
  LET statusCode0 == IF err.statusCode # 0 THEN err.statusCode ELSE 500
      errorMessage0 == IF err.message # "" THEN err.message ELSE "Internal Server Error"
      picked ==
        IF err.name = "JsonWebTokenError" \/ err.name = "TokenExpiredError"
        THEN <<401, "Authentication failed. Please log in again.">>
        ELSE IF err.code = "23505"
        THEN <<409, "This item already exists.">>
        ELSE IF err.code = "ECONNREFUSED"
        THEN <<503, "Service temporarily unavailable.">>
        ELSE IF err.message = "Not allowed by CORS policy"
        THEN <<403, "Access denied due to CORS policy.">>
        ELSE <<statusCode0, errorMessage0>>
      statusCode == IF picked[1] < 400 \/ picked[1] > 599 THEN 500 ELSE picked[1]
  IN sendError(picked[2], statusCode)

\* the errors a handler may throw: Error objects with or without a name of
\* jsonwebtoken, a code of pg or of the socket, a statusCode, a message
Errors ==
  [name : {"Error", "JsonWebTokenError", "TokenExpiredError"},
   code : {"", "23505", "ECONNREFUSED", "42P01"},
   statusCode : {0, 200, 404, 500, 503},
   message : {"", "relation \"classes\" does not exist", "Not allowed by CORS",
              "Not allowed by CORS policy"}]

\* asyncHandler(fn): fn rejects with err, .catch(next) hands it to the
\* error handler of server.js
Throw(r, err) ==
  /\ Free(r)
  /\ Arrive(r, "throw", NoHeader, err, "done", globalErrorHandler(err))
  /\ UNCHANGED <<users, classes, now, held, creds, heldDenied, notifVars, sysVars>>

\* the same with the error handler of unnamed/part_011
LegacyThrow(r, err) ==
  /\ Free(r)
  /\ Arrive(r, "legacy:throw", NoHeader, err, "done", LegacyGlobalErrorHandler(err))
  /\ UNCHANGED <<users, classes, now, held, creds, heldDenied, notifVars, sysVars>>

NextErrors ==
  \/ \E r \in ReqIds : \E err \in Errors : Throw(r, err)
  \/ \E r \in ReqIds : \E err \in Errors : LegacyThrow(r, err)
  \/ \E r \in ReqIds : Finish(r)

SpecErrors == InitGate /\ [][NextErrors]_vars

\* ------------------------------------------------------------------------
\* SpecLogin: logins of the two stored users and of others, with the stored
\* password, a wrong one, none, and one that is not a string
\* ------------------------------------------------------------------------
LoginInputs ==
  [email : {EmailLower, EmailUpper, EmailOther, EmailThird, EmailNone},
   password : {"secret1", "hunter22", "", NumberPassword}]

NextLogin ==
  \/ \E r \in ReqIds : \E body \in LoginInputs : LoginSelect(r, body)
  \/ \E r \in ReqIds : LoginCompare(r)
  \/ \E r \in ReqIds : Finish(r)
  \/ Tick

SpecLogin == InitGate /\ [][NextLogin]_vars

\* ------------------------------------------------------------------------
\* SpecRace: the requests in flight at once on one class of user 1, which
\* is scheduled or rescheduled: each slot takes one request, and the
\* statements of the requests reach the database in any order
\* ------------------------------------------------------------------------
RaceRescheduleBodies ==
  [classId : {"1"},
   newTime : {<<"2025-03-02", " ", "11:00">>, <<"2025-03-01", " ", "10:00">>},
   newRoom : {"R2", "R3"}]

RaceCancelBodies == [classId : {"1"}, reason : {"sick"}]

InitRace ==
  /\ users = SeedHocUsers
  /\ classes \in {<<[SeedClass EXCEPT !.status = s]>> : s \in {"scheduled", "rescheduled"}}
  /\ now = 0
  /\ reqs = [r \in 1..MaxClassReq |-> IdleReq]
  /\ held = NoToken
  /\ creds = {<<SeedBodies[i].email, SeedBodies[i].password>> : i \in 1..2}
  /\ heldDenied = FALSE
  /\ NoNotifications
  /\ Serving

NextRace ==
  \/ \E r \in ReqIds : \E user \in GateUsers : \E body \in RaceRescheduleBodies :
       RescheduleClass(r, user, body)
  \/ \E r \in ReqIds : RescheduleCheck(r)
  \/ \E r \in ReqIds : \E user \in GateUsers : \E body \in RaceCancelBodies :
       CancelClass(r, user, body)
  \/ \E r \in ReqIds : CancelCheck(r)

SpecRace == InitRace /\ [][NextRace]_vars

\* ------------------------------------------------------------------------
\* SpecProtect: requests to the protected routes with every kind of
\* Authorization header, among them tokens the server has signed: for the
\* stored users, and for a user whose row is no longer in the store
\* ------------------------------------------------------------------------
RemovedUserId == Len(SeedUsers) + 1

ProtectHeaders ==
  Headers \cup IssuedHeaders
          \cup {Bearer(generateToken(RemovedUserId, 0)), OtherScheme(generateToken(1, 0))}

NextProtect ==
  \/ \E r \in ReqIds : \E route \in {"home:dashboard", "hoc:test", "hoc:force-enable-hoc"} :
     \E hdr \in ProtectHeaders : protect(r, route, hdr, NoBody)
  \/ \E r \in ReqIds : hocOnly(r)
  \/ \E r \in ReqIds : HomeDashboard(r)
  \/ \E r \in ReqIds : HocTest(r)
  \/ \E r \in ReqIds : ForceEnableHoc(r)
  \/ \E r \in ReqIds : Finish(r)
  \/ \E id \in 1..Len(users) : \E isHoc \in BOOLEAN : setRole(id, isHoc)
  \/ Tick

SpecProtect == InitGate /\ [][NextProtect]_vars

\* ------------------------------------------------------------------------
\* routes/hoc.js: withRateLimit, on GET /limited and POST /secure-data
\* ------------------------------------------------------------------------
\* withRateLimit(60000, 10) on /limited, withRateLimit(60000, 5) on /secure-data
maxRequests(route) == IF route = "limited" THEN LimitedMaxRequests ELSE SecureMaxRequests

\* variant: a time is forgotten one millisecond before it leaves the window
InWindowShort(time, windowStart) == time > windowStart + 1

\* .filter(time => time > windowStart)
InWindow(time, windowStart) == time > windowStart

\* the middleware withRateLimit returns, for a request of ip to route: the
\* times of ip are filtered and stored; 429 with as many as maxRequests,
\* else the time is pushed and next is called. Every limiter reads and
\* writes the one rateLimitMap of the module.
withRateLimit(ip, route) ==
  /\ LET windowStart == ms - windowMs
         requests == SelectSeq(rateLimitMap[ip], LAMBDA time : InWindow(time, windowStart))
     IN IF Len(requests) >= maxRequests(route)
        THEN /\ rateLimitMap' = [rateLimitMap EXCEPT ![ip] = requests]
             /\ lastLimit' = [ip |-> ip, route |-> route, status |-> 429]
             /\ UNCHANGED passed
        ELSE /\ rateLimitMap' = [rateLimitMap EXCEPT ![ip] = Append(requests, ms)]
             /\ lastLimit' = [ip |-> ip, route |-> route, status |-> 0]
             /\ passed' = [passed EXCEPT ![<<ip, route, ms>>] = @ + 1]
  /\ UNCHANGED <<ms, appVars, secretSet, server, txn, clients, down>>

\* Date.now() moves on
TickMs ==
  /\ ms < MaxMs
  /\ ms' = ms + 1
  /\ UNCHANGED <<rateLimitMap, passed, lastLimit, appVars, secretSet, server, txn, clients, down>>

NextLimit ==
  \/ \E ip \in Ips : \E route \in LimitedRoutes : withRateLimit(ip, route)
  \/ TickMs

SpecLimit == InitGate /\ [][NextLimit]_vars

\* ------------------------------------------------------------------------
\* SpecClassNotify: send-class-notification by the three users, with the
\* students of class 1 and their preferences in every combination
\* ------------------------------------------------------------------------
InitClassNotify ==
  /\ users = NotifUsers
  /\ classes = <<SeedClass>>
  /\ now = 0
  /\ reqs = [r \in 1..MaxReq |-> IdleReq]
  /\ held = NoToken
  /\ creds = {}
  /\ heldDenied = FALSE
  /\ notifications = {}
  /\ notifSeq = 0
  /\ push_tokens \in SUBSET {[user_id |-> 2, token |-> "ExponentPushToken[a]"],
                             [user_id |-> 3, token |-> "ExponentPushToken[b]"]}
  /\ user_push_tokens = {}
  /\ enrollments \in SUBSET {[student_id |-> 2, class_id |-> 1],
                             [student_id |-> 3, class_id |-> 1],
                             [student_id |-> 3, class_id |-> 2]}
  /\ notifications_enabled \in SUBSET {2, 3}
  /\ outbox = {}
  /\ removing = {}
  /\ Serving

NextClassNotify ==
  \/ \E r \in ReqIds : \E hdr \in IssuedHeaders :
     \E body \in [classId : {"", "1", "2", "x"}, title : {"", "Exam"}, message : {"Monday"}] :
       protect(r, "notif:send-class-notification", hdr, body)
  \/ \E r \in ReqIds : SendClassNotification(r)
  \/ \E r \in ReqIds : \E answer \in ProviderAnswers(ExpoTokens) : PushSent(r, answer)
  \/ \E token \in ExpoTokens : removeInvalidPushToken(token)
  \/ \E r \in ReqIds : Finish(r)

SpecClassNotify == InitClassNotify /\ [][NextClassNotify]_vars

\* ------------------------------------------------------------------------
\* unnamed/part_011: gracefulShutdown of that revision of server.js, and
\* closePool of db.js
\* ------------------------------------------------------------------------
\* process.exit(code)
Exit(code) == [server EXCEPT !.pc = "exited", !.exitCode = code]

\* variant: an error of closePool is not caught and ends the process with 1
ExitAfterClosePoolUncaught(ok) == IF ok THEN 0 ELSE 1

\* the callback of server.close: try { await db.closePool() } catch { log },
\* then process.exit(0)
ExitAfterClosePool(ok) == 0

\* SIGTERM or SIGINT once startServer has registered its handlers:
\* gracefulShutdown calls server.close(callback) and sets the timer. The
\* first call stops the server accepting connections. On a server that has
\* closed already the callback runs at once: its closePool is rejected,
\* since the pool is being ended by the first callback, and the process
\* exits.
Signal ==
  /\ server.pc = "listening"
  /\ down.signals < MaxSignals
  /\ IF down.http = "closed"
     THEN /\ down' = [down EXCEPT !.signals = @ + 1, !.closePool = "rejected"]
          /\ server' = Exit(ExitAfterClosePool(FALSE))
     ELSE /\ down' = [down EXCEPT !.signals = @ + 1, !.http = "closing", !.timer = "armed"]
          /\ UNCHANGED server
  /\ UNCHANGED <<secretSet, txn, clients, limitVars, appVars>>

\* the last connection has ended and the server emits 'close': the callback
\* of the first signal calls closePool, which awaits pool.end(); the
\* callback of a second signal calls it again, is rejected and exits
HttpClosed ==
  /\ server.pc = "listening"
  /\ down.http = "closing"
  /\ txn.pc = "idle"
  /\ IF down.signals > 1
     THEN /\ down' = [down EXCEPT !.http = "closed", !.pool = "ending", !.closePool = "rejected"]
          /\ server' = Exit(ExitAfterClosePool(FALSE))
     ELSE /\ down' = [down EXCEPT !.http = "closed", !.pool = "ending", !.closePool = "pending"]
          /\ UNCHANGED server
  /\ UNCHANGED <<secretSet, txn, clients, limitVars, appVars>>

\* closePool: pool.end() resolves once every client has been released, or
\* rejects; the callback goes on to process.exit
PoolEnded(ok) ==
  /\ server.pc = "listening"
  /\ down.pool = "ending"
  /\ ok => \A c \in 1..Len(clients) : clients[c] >= 1
  /\ down' = [down EXCEPT !.pool = IF ok THEN "ended" ELSE @,
                          !.closePool = IF ok THEN "resolved" ELSE "rejected"]
  /\ server' = Exit(ExitAfterClosePool(ok))
  /\ UNCHANGED <<secretSet, txn, clients, limitVars, appVars>>

\* setTimeout(..., 10000) of the first signal fires: process.exit(1)
ForcedShutdown ==
  /\ server.pc = "listening"
  /\ down.timer = "armed"
  /\ down' = [down EXCEPT !.timer = "fired"]
  /\ server' = Exit(1)
  /\ UNCHANGED <<secretSet, txn, clients, limitVars, appVars>>

NextShutdown ==
  \/ NextBoot
  \/ Signal
  \/ HttpClosed
  \/ \E ok \in BOOLEAN : PoolEnded(ok)
  \/ ForcedShutdown

SpecShutdown == InitBoot /\ [][NextShutdown]_vars

\* the timer of a process that is running fires
SpecShutdownFair == SpecShutdown /\ WF_vars(ForcedShutdown)

\* ------------------------------------------------------------------------
\* SpecRoles: the routes that read or write users.is_hoc, as server.js
\* mounts them, from a store with or without a head of class; the signup
\* bodies carry role fields of their own
\* ------------------------------------------------------------------------
RoleSignupBodies ==
  {[fullName |-> "Eve", email |-> e, password |-> "secret1", department |-> "CS",
    academicYear |-> "2", isHoc |-> TRUE, is_hoc |-> TRUE] : e \in {EmailThird, EmailUpper}}

RoleLoginBodies ==
  [email : {EmailLower, EmailOther, EmailThird}, password : {"secret1", "hunter22"}]

InitRoles ==
  /\ users \in {SeedUsers, [SeedUsers EXCEPT ![1].is_hoc = TRUE]}
  /\ classes = <<>>
  /\ now = 0
  /\ reqs = [r \in 1..MaxReq |-> IdleReq]
  /\ held = NoToken
  /\ creds = {<<SeedBodies[i].email, SeedBodies[i].password>> : i \in 1..2}
  /\ heldDenied = FALSE
  /\ NoNotifications
  /\ Serving

NextRoles ==
  \/ \E r \in ReqIds : \E body \in RoleSignupBodies : SignupSelect(r, body)
  \/ \E r \in ReqIds : SignupInsert(r)
  \/ \E r \in ReqIds : \E body \in RoleLoginBodies : LoginSelect(r, body)
  \/ \E r \in ReqIds : LoginCompare(r)
  \/ \E r \in ReqIds : \E route \in {"home:dashboard", "hoc:test", "hoc:force-enable-hoc"} :
     \E hdr \in Headers : protect(r, route, hdr, NoBody)
  \/ \E r \in ReqIds : hocOnly(r)
  \/ \E r \in ReqIds : HomeDashboard(r)
  \/ \E r \in ReqIds : HocTest(r)
  \/ \E r \in ReqIds : ForceEnableHoc(r)
  \/ \E r \in ReqIds : Finish(r)
  \/ Tick

SpecRoles == InitRoles /\ [][NextRoles]_vars

\* ------------------------------------------------------------------------
\* SpecSignupRace: signups in flight at once, each slot taking one request;
\* the emails differ in letter case only, or not at all, or are another's
\* ------------------------------------------------------------------------
RaceSignupBodies ==
  [fullName : {"Ada"}, email : {EmailLower, EmailUpper, EmailOther},
   password : {"secret1", "abc12"}, department : {"CS"}, academicYear : {"2"}]

InitSignupRace ==
  /\ users \in {<<>>, <<SeedUsers[1]>>}
  /\ classes = <<>>
  /\ now = 0
  /\ reqs = [r \in 1..MaxClassReq |-> IdleReq]
  /\ held = NoToken
  /\ creds = {}
  /\ heldDenied = FALSE
  /\ NoNotifications
  /\ Serving

NextSignupRace ==
  \/ \E r \in ReqIds : \E body \in RaceSignupBodies : SignupSelect(r, body)
  \/ \E r \in ReqIds : SignupInsert(r)

SpecSignupRace == InitSignupRace /\ [][NextSignupRace]_vars

\* ========================================================================
\* Properties
\* ========================================================================
TypeOK ==
  /\ now \in 0..MaxClock
  /\ \A i \in 1..Len(users) : users[i].id = i
  /\ \A i \in 1..Len(classes) : classes[i].id = i

\* two characters that are the same letter
CasePairs == {<<"A", "a">>, <<"B", "b">>, <<"C", "c">>, <<"Z", "z">>}
SameLetter(c, d) == c = d \/ <<c, d>> \in CasePairs \/ <<d, c>> \in CasePairs

\* two emails equal ignoring letter case
SameEmail(e, f) == Len(e) = Len(f) /\ \A i \in 1..Len(e) : SameLetter(e[i], f[i])

\* the rows of the users table whose email equals e ignoring case
Stored(e) == {i \in 1..Len(users) : SameEmail(users[i].email, e)}

\* the client signed up with these credentials (the email in any case)
SignedUp(body) ==
  \E c \in creds : SameEmail(c[1], body.email) /\ c[2] = body.password

\* a request to `route` has arrived in slot r at this step
Arrived(r, route) == reqs[r].pc = "idle" /\ reqs'[r].route = route

\* C1: a signup with a valid payload and an email not yet stored is answered
\* 201 and stores the user; a later login with the same email and password
\* is answered 200 with a token; protect accepts that token on a request
\* made before the token expires, calling next with req.user set to that
\* user.
C1_Step ==
  /\ \A r \in ReqIds :
       LET body == reqs'[r].body IN
         (Arrived(r, "signup") /\ SignupValid(body) /\ Stored(body.email) = {}
            /\ SignupSelect(r, body))
           => reqs'[r].pc = "signup:insert"
  /\ \A r \in ReqIds :
       (reqs[r].pc = "signup:insert" /\ Stored(reqs[r].body.email) = {}
          /\ SignupInsert(r))
         => /\ reqs'[r].res.status = 201 /\ reqs'[r].res.success
            /\ Len(users') = Len(users) + 1
            /\ SameEmail(users'[Len(users')].email, reqs[r].body.email)
            /\ <<reqs[r].body.email, reqs[r].body.password>> \in creds'
  /\ \A r \in ReqIds :
       LET body == reqs'[r].body IN
         (Arrived(r, "login") /\ SignedUp(body) /\ LoginSelect(r, body))
           => /\ reqs'[r].pc = "login:compare"
              /\ SameEmail(reqs'[r].row.email, body.email)
  /\ \A r \in ReqIds :
       (reqs[r].pc = "login:compare" /\ SignedUp(reqs[r].body) /\ LoginCompare(r))
         => /\ reqs'[r].res.status = 200 /\ reqs'[r].res.success
            /\ reqs'[r].res.data.token.kind = "jwt"
            /\ reqs'[r].res.data.token.userId \in Stored(reqs[r].body.email)
            /\ held' = reqs'[r].res.data.token
  /\ \A r \in ReqIds :
       (Arrived(r, "home:dashboard") /\ reqs'[r].hdr = Bearer(held) /\ now < held.exp
          /\ protect(r, "home:dashboard", Bearer(held), NoBody))
         => /\ reqs'[r].pc = "home:dashboard"
            /\ reqs'[r].res = NoRes
            /\ reqs'[r].user.id = held.userId
            /\ reqs'[r].user.email = users[held.userId].email

C1_SignupLoginProtect == [][C1_Step]_vars

\* a request carrying the token of a login with signed-up credentials has
\* passed protect, one tick after the login
C1_Witness ==
  \E r \in ReqIds :
    /\ reqs[r].route = "home:dashboard"
    /\ reqs[r].pc = "home:dashboard"
    /\ reqs[r].hdr = Bearer(held)
    /\ reqs[r].user.id = held.userId
    /\ \E c \in creds : c[1] = EmailUpper /\ users[held.userId].email = EmailLower

\* C2 as stated: every signup whose email equals a stored email ignoring
\* case is answered 409 and inserts no row.
C2_OriginalStep ==
  \A r \in ReqIds :
    LET body == reqs'[r].body IN
      (Arrived(r, "signup") /\ Stored(body.email) # {} /\ SignupSelect(r, body))
        => /\ reqs'[r].pc = "done"
           /\ reqs'[r].res.status = 409
           /\ users' = users

C2_Original == [][C2_OriginalStep]_vars

\* C2 (amended): a signup whose email equals a stored email ignoring case
\* inserts no row; it is answered 409 when the payload passes validation
\* and 400 when it does not.
C2_AmendedStep ==
  \A r \in ReqIds :
    LET body == reqs'[r].body IN
      (Arrived(r, "signup") /\ Stored(body.email) # {} /\ SignupSelect(r, body))
        => /\ reqs'[r].pc = "done"
           /\ users' = users
           /\ ~reqs'[r].res.success
           /\ reqs'[r].res.status = IF SignupValid(body) THEN 409 ELSE 400

C2_DuplicateEmail == [][C2_AmendedStep]_vars

\* a signup with the stored email in another case has been answered 409
C2_Witness ==
  \E r \in ReqIds :
    /\ reqs[r].route = "signup" /\ reqs[r].pc = "done"
    /\ reqs[r].res.status = 409
    /\ reqs[r].body.email = EmailUpper
    /\ Len(users) = 1 /\ users[1].email = EmailLower

\* the one response of a failed login
LoginRefused == [NoRes EXCEPT !.status = 401, !.error = "Invalid email or password."]

\* C3: a login with a non-empty email and a password that is not the one
\* signed up with for that email is answered 401 with the same envelope
\* and message whether or not a user with that email is stored.
C3_Step ==
  /\ \A r \in ReqIds :
       LET body == reqs'[r].body IN
         (Arrived(r, "login") /\ body.email # EmailNone /\ body.password # ""
            /\ ~SignedUp(body) /\ LoginSelect(r, body))
           => IF Stored(body.email) = {}
              THEN reqs'[r].pc = "done" /\ reqs'[r].res = LoginRefused
              ELSE reqs'[r].pc = "login:compare"
  /\ \A r \in ReqIds :
       (reqs[r].pc = "login:compare" /\ ~SignedUp(reqs[r].body) /\ LoginCompare(r))
         => reqs'[r].pc = "done" /\ reqs'[r].res = LoginRefused

C3_LoginRefusedAlike == [][C3_Step]_vars

\* a login with a stored email and another password has been answered 401
C3_Witness ==
  \E r \in ReqIds :
    /\ reqs[r].route = "login" /\ reqs[r].pc = "done"
    /\ Stored(reqs[r].body.email) # {}
    /\ reqs[r].body.password # ""
    /\ ~SignedUp(reqs[r].body)
    /\ reqs[r].res = LoginRefused

\* a request to a route behind the auth gate has arrived in slot r at this
\* step and protect has run on it
Gated(r) ==
  /\ reqs[r].pc = "idle"
  /\ reqs'[r].route \in ProtectedRoutes
  /\ protect(r, reqs'[r].route, reqs'[r].hdr, NoBody)

\* the header carries a token signed with another secret, or one past its
\* expiry
WrongSecretOrExpired(hdr) ==
  /\ hdr.present /\ hdr.bearer /\ hdr.cred.kind = "jwt"
  /\ (hdr.cred.key # JWT_SECRET \/ now >= hdr.cred.exp)

\* C4: a request to a protected route whose bearer token is signed with
\* another secret, or is past its expiry, is answered 401 by protect and
\* goes to no role check and no handler, whatever user id the token names.
C4_Step ==
  \A r \in ReqIds :
    (Gated(r) /\ WrongSecretOrExpired(reqs'[r].hdr))
      => /\ reqs'[r].pc = "done"
         /\ reqs'[r].res.status = 401
         /\ ~reqs'[r].res.success
         /\ reqs'[r].user = NoUser

C4_BadTokenRefused == [][C4_Step]_vars

\* the token a login issued has been refused after its expiry
C4_Witness ==
  \E r \in ReqIds :
    /\ reqs[r].route \in ProtectedRoutes /\ reqs[r].pc = "done"
    /\ reqs[r].hdr = Bearer(held)
    /\ held.key = JWT_SECRET /\ held.userId \in 1..Len(users)
    /\ now >= held.exp
    /\ reqs[r].res.status = 401

\* the token in the header fails verification
VerificationFails(hdr) ==
  /\ hdr.present /\ hdr.bearer
  /\ (hdr.cred.kind # "jwt" \/ hdr.cred.key # JWT_SECRET \/ now >= hdr.cred.exp)

\* the answer of protect to text that is no JWT
MalformedRefusal == ProtectCatch(jwtVerify(GarbageToken, JWT_SECRET, now).name)

\* C5: when verification of the token fails in protect, the 401 response
\* has the same status and message whether the token was malformed,
\* expired or signed with another secret.
C5_Step ==
  \A r \in ReqIds :
    (Gated(r) /\ VerificationFails(reqs'[r].hdr))
      => reqs'[r].res = MalformedRefusal

C5_FailuresAlike == [][C5_Step]_vars

\* C6: a request to a route behind protect with no Authorization header,
\* or with a header that does not start with 'Bearer ', is answered 401
\* and goes to no role check and no handler.
C6_Step ==
  \A r \in ReqIds :
    (Gated(r) /\ (~reqs'[r].hdr.present \/ ~reqs'[r].hdr.bearer))
      => /\ reqs'[r].pc = "done"
         /\ reqs'[r].res.status = 401
         /\ ~reqs'[r].res.success
         /\ reqs'[r].user = NoUser

C6_NoBearerRefused == [][C6_Step]_vars

\* a request to an HOC route carrying a valid token of a Head of Class
\* under another scheme has been refused
C6_Witness ==
  \E r \in ReqIds :
    /\ reqs[r].route \in HocRoutes /\ reqs[r].pc = "done"
    /\ reqs[r].hdr = OtherScheme(held)
    /\ held.key = JWT_SECRET /\ now < held.exp
    /\ users[held.userId].is_hoc
    /\ reqs[r].res.status = 401
    /\ reqs[r].user = NoUser

\* C7: protect loads req.user from the stored record of the token's user;
\* hocOnly answers 403 and runs no handler when the loaded is_hoc flag is
\* false, and passes the request to the handler when it is true, so the
\* same token passes once the stored flag is true.
C7_Step ==
  /\ \A r \in ReqIds :
       LET hdr == reqs'[r].hdr
           route == reqs'[r].route
       IN (Gated(r) /\ reqs'[r].pc # "done")
            => /\ hdr.cred.userId \in 1..Len(users)
               /\ reqs'[r].user.id = hdr.cred.userId
               /\ reqs'[r].user.isHoc = users[hdr.cred.userId].is_hoc
               /\ reqs'[r].pc = IF route \in HocRoutes THEN "hocOnly" ELSE route
  /\ \A r \in ReqIds :
       (reqs[r].pc = "hocOnly" /\ hocOnly(r))
         => IF reqs[r].user.isHoc
            THEN reqs'[r].pc = reqs[r].route /\ reqs'[r].res = NoRes
            ELSE /\ reqs'[r].pc = "done"
                 /\ reqs'[r].res.status = 403
                 /\ ~reqs'[r].res.success
  /\ \A r \in ReqIds :
       (reqs[r].pc \in HocRoutes /\ (HocTest(r) \/ ForceEnableHoc(r)))
         => reqs[r].user.isHoc

C7_RoleFromStoredRecord == [][C7_Step]_vars

\* a request carrying the token that was answered 403 before has passed
\* the role check
C7_Witness ==
  \E r \in ReqIds :
    /\ heldDenied
    /\ reqs[r].hdr = Bearer(held)
    /\ reqs[r].route \in HocRoutes
    /\ reqs[r].pc = reqs[r].route
    /\ reqs[r].user.id = held.userId
    /\ users[held.userId].is_hoc

\* every class row that is not the caller's keeps its values
OthersRowsKept(user) ==
  /\ Len(classes') = Len(classes)
  /\ \A i \in 1..Len(classes) :
       classes[i].hoc_id # user.id => classes'[i] = classes[i]

\* C8: a cancel-class or reschedule-class request for a class whose hoc_id
\* differs from the caller's id leaves that class row unchanged, in every
\* status of the class and at every step of the request, in either
\* revision of the handlers.
C8_Step ==
  /\ \A r \in ReqIds :
       LET user == reqs'[r].user
           body == reqs'[r].body
       IN /\ (Arrived(r, "hoc:cancel-class") /\ CancelClass(r, user, body))
               => OthersRowsKept(user)
          /\ (Arrived(r, "legacy:cancel-class") /\ LegacyCancelClass(r, user, body))
               => OthersRowsKept(user)
          /\ (Arrived(r, "hoc:reschedule-class") /\ RescheduleClass(r, user, body))
               => OthersRowsKept(user)
          /\ (Arrived(r, "legacy:reschedule-class") /\ LegacyRescheduleClass(r, user, body))
               => OthersRowsKept(user)
  /\ \A r \in ReqIds :
       (reqs[r].pc \in {"cancel:check", "reschedule:check"}
          /\ (CancelCheck(r) \/ RescheduleCheck(r)))
         => classes' = classes

C8_OthersClassUnchanged == [][C8_Step]_vars

\* the class the request names, if it is stored
Named(req) == SelectClassesById(classes, parseInt(req.body.classId))

\* a reschedule of another HOC's class that is not final has been refused
\* and the class has kept its start time, location and status
C8_Witness ==
  \E r \in ReqIds :
    /\ reqs[r].route = "hoc:reschedule-class" /\ reqs[r].pc = "done"
    /\ reqs[r].res.status = 403
    /\ Len(Named(reqs[r])) = 1
    /\ Named(reqs[r])[1].hoc_id # reqs[r].user.id
    /\ Named(reqs[r])[1].status = "scheduled"
    /\ Named(reqs[r])[1].location # reqs[r].body.newRoom

\* the request passes the validation of its handler
ClassRequestValid(req) ==
  /\ parseInt(req.body.classId) >= 1
  /\ IF req.route = "hoc:cancel-class"
     THEN trim(req.body.reason) # ""
     ELSE req.body.newRoom # "" /\ NewDate(req.body.newTime) # InvalidDate

\* a finished cancel or reschedule request of a caller who does not own the
\* class it names
ByNonOwner(req) ==
  /\ req.pc = "done"
  /\ req.route \in {"hoc:cancel-class", "hoc:reschedule-class"}
  /\ ClassRequestValid(req)
  /\ \A i \in 1..Len(Named(req)) : Named(req)[i].hoc_id # req.user.id

\* C9: for a caller who does not own a class, the response to cancel-class
\* or reschedule-class has the same status and message whether the class
\* id names a class of someone else, in any status, or no class at all.
C9_NonOwnerAlike ==
  \A r \in ReqIds : \A q \in ReqIds :
    (ByNonOwner(reqs[r]) /\ ByNonOwner(reqs[q]) /\ reqs[r].route = reqs[q].route)
      => reqs[r].res = reqs[q].res

\* the caller owns the class the body names and the class is cancelled or
\* completed
OwnFinalClass(user, body) ==
  \E i \in 1..Len(classes) :
    /\ classes[i].id = parseInt(body.classId)
    /\ classes[i].hoc_id = user.id
    /\ classes[i].status \in {"cancelled", "completed"}

\* C10: a cancel-class request by the owner for a class that is already
\* cancelled or completed changes no class row and is never answered with
\* success; with a class id and a reason it is answered 400 'Class already
\* completed or cancelled.'
C10_Step ==
  /\ \A r \in ReqIds :
       LET user == reqs'[r].user
           body == reqs'[r].body
       IN (Arrived(r, "hoc:cancel-class") /\ OwnFinalClass(user, body)
             /\ CancelClass(r, user, body))
            => /\ classes' = classes
               /\ IF trim(body.reason) = ""
                  THEN reqs'[r].pc = "done" /\ reqs'[r].res.status = 400
                  ELSE reqs'[r].pc = "cancel:check"
  /\ \A r \in ReqIds :
       (reqs[r].pc = "cancel:check" /\ OwnFinalClass(reqs[r].user, reqs[r].body)
          /\ CancelCheck(r))
         => /\ classes' = classes
            /\ reqs'[r].pc = "done"
            /\ reqs'[r].res =
                 [NoRes EXCEPT !.status = 400,
                               !.error = "Class already completed or cancelled."]

AllowedTransitions ==
  {<<"scheduled", "rescheduled">>, <<"scheduled", "cancelled">>,
   <<"rescheduled", "rescheduled">>, <<"rescheduled", "cancelled">>}

\* the step is the marking of a class as completed, which is no request
IsComplete == \E id \in 1..Len(classes) : CompleteClass(id)

\* C11: under any interleaving of create-class, cancel-class and
\* reschedule-class requests every change of a class's status is one of
\* scheduled->rescheduled, scheduled->cancelled, rescheduled->rescheduled,
\* rescheduled->cancelled; a cancelled or completed class keeps its status,
\* start_time and location; every class is created with status 'scheduled'.
C11_Step ==
  /\ Len(classes') >= Len(classes)
  /\ \A i \in 1..Len(classes) :
       /\ (classes'[i].status # classes[i].status /\ ~IsComplete)
            => <<classes[i].status, classes'[i].status>> \in AllowedTransitions
       /\ classes[i].status \in {"cancelled", "completed"}
            => /\ classes'[i].status = classes[i].status
               /\ classes'[i].start_time = classes[i].start_time
               /\ classes'[i].location = classes[i].location
  /\ \A i \in (Len(classes) + 1)..Len(classes') : classes'[i].status = "scheduled"

C11_StatusTransitions == [][C11_Step]_vars

\* a class has been rescheduled and then cancelled, and a later reschedule
\* of it by its owner has been refused
C11_Witness ==
  \E r \in ReqIds :
    /\ reqs[r].route = "hoc:reschedule-class" /\ reqs[r].pc = "done"
    /\ reqs[r].res.status = 400
    /\ Len(Named(reqs[r])) = 1
    /\ Named(reqs[r])[1].hoc_id = reqs[r].user.id
    /\ Named(reqs[r])[1].status = "cancelled"
    /\ Named(reqs[r])[1].location = "R2"

\* the number a text is the decimal numeral of
NumberOf(text) ==
  CASE text = "0" -> 0
    [] text = "30" -> 30
    [] text = "60" -> 60
    [] OTHER -> NaN

\* the row holds what the create-class body gave
RowMatchesInput(row, user, body) ==
  /\ row.hoc_id = user.id
  /\ row.class_name = body.className
  /\ row.start_time = [date |-> body.date, time |-> body.time]
  /\ row.location = body.room
  /\ row.duration_minutes = NumberOf(body.duration)
  /\ row.max_students = NumberOf(body.maxStudents)
  /\ row.status = "scheduled"

\* the record of my-classes shows the row
RecordShowsRow(rec, row) ==
  /\ rec.id = row.id
  /\ rec.class_name = row.class_name
  /\ rec.start_time = row.start_time
  /\ rec.location = row.location /\ rec.room = row.location
  /\ rec.duration_minutes = row.duration_minutes
  /\ rec.max_students = row.max_students
  /\ rec.status = row.status

\* C12: a class an HOC creates is stored with the class name, start time,
\* room, duration and capacity of the input and status 'scheduled', and
\* my-classes returns a record with the fields of every class row of the
\* caller and no record of a class of another HOC.
C12_Step ==
  /\ \A r \in ReqIds :
       LET user == reqs'[r].user
           body == reqs'[r].body
       IN (Arrived(r, "hoc:create-class") /\ CreateClass(r, user, body)
             /\ reqs'[r].res.status = 201)
            => /\ Len(classes') = Len(classes) + 1
               /\ RowMatchesInput(classes'[Len(classes')], user, body)
  /\ \A r \in ReqIds :
       LET user == reqs'[r].user IN
         (Arrived(r, "hoc:my-classes") /\ MyClasses(r, user))
           => /\ reqs'[r].res.status = 200 /\ reqs'[r].res.success
              /\ \A i \in 1..Len(classes) :
                   IF classes[i].hoc_id = user.id
                   THEN \E rec \in reqs'[r].res.data.rows : RecordShowsRow(rec, classes[i])
                   ELSE \A rec \in reqs'[r].res.data.rows : rec.id # classes[i].id

C12_RoundTrip == [][C12_Step]_vars

\* ------------------------------------------------------------------------
\* C13: the notification actions of a Head of Class (log-notification,
\* send-class-notification, broadcast-notification) are HOC-only: when the
\* handler of one acts for an authenticated user whose isHoc flag is false,
\* no row is added to notifications, nothing is pushed, and the response is
\* 403.
\* ------------------------------------------------------------------------
ActsForNonHoc(r) ==
  /\ reqs[r].route \in HocNotificationRoutes
  /\ reqs[r].pc \notin {"idle", "done"}
  /\ reqs'[r] # reqs[r]
  /\ ~IsHocUser(reqs[r])

C13_Step ==
  \A r \in ReqIds :
    ActsForNonHoc(r) =>
      /\ notifications' = notifications
      /\ outbox' = outbox
      /\ reqs'[r].pc = "done" => reqs'[r].res.status = 403

C13_HocOnlyNotifications == [][C13_Step]_vars

\* ------------------------------------------------------------------------
\* C14: after any register-token, unregister-token and update-preference
\* requests the push-token store holds at most one token per user; a
\* register-token that succeeds leaves the caller with the new token in
\* place of any older one, and changes the rows of the authenticated
\* caller only, whatever user id the body carries.
\* ------------------------------------------------------------------------
OneTokenPerUser(table) ==
  \A x \in table : \A y \in table : x.user_id = y.user_id => x = y

\* the user the token of the request authenticates, 0 if none
Caller(req) ==
  LET decoded == jwtVerify(req.hdr.cred, JWT_SECRET, now)
  IN IF startsWithBearer(req.hdr) /\ decoded.ok THEN decoded.userId ELSE 0

Registers(r) ==
  /\ reqs'[r] # reqs[r]
  /\ reqs'[r].route \in {"notif:register-token", "legacy:register-token"}
  /\ reqs'[r].pc = "done"
  /\ reqs'[r].res.success

OthersTokens(table, userId) == {x \in table : x.user_id # userId}

C14_Step ==
  /\ OneTokenPerUser(push_tokens') /\ OneTokenPerUser(user_push_tokens')
  /\ \A r \in ReqIds :
       Registers(r) =>
         LET caller == Caller(reqs'[r])
             mine == [user_id |-> caller, token |-> reqs'[r].body.pushToken]
         IN /\ mine \in push_tokens' \cup user_push_tokens'
            /\ OthersTokens(push_tokens', caller) = OthersTokens(push_tokens, caller)
            /\ OthersTokens(user_push_tokens', caller) = OthersTokens(user_push_tokens, caller)

C14_OneTokenForCaller == [][C14_Step]_vars

\* ------------------------------------------------------------------------
\* C15: when the provider's ticket for a token reports DeviceNotRegistered,
\* the sending request still completes with a success envelope, the token
\* is eventually deleted from push_tokens, and the only rows a step deletes
\* from push_tokens are rows of a token so reported.
\* ------------------------------------------------------------------------
Reported(token) == \E r \in ReqIds : reqs[r].pc = "done" /\ token \in reqs[r].tickets
TokenStored(token) == \E pt \in push_tokens : pt.token = token

C15_Step ==
  /\ \A r \in ReqIds :
       reqs[r].pc = "notif:push" /\ reqs'[r] # reqs[r] =>
         /\ reqs'[r].pc = "done"
         /\ reqs'[r].res.success /\ reqs'[r].res.status = 200
         /\ push_tokens' = push_tokens
  /\ \A pt \in push_tokens \ push_tokens' : pt.token \in removing
  /\ push_tokens' \subseteq push_tokens

NoCallInProgress == server.pc \in {"load", "listening", "exited"} /\ txn.pc = "idle"

C16_ClientsReleased ==
  /\ \A c \in 1..Len(clients) : clients[c] <= 1
  /\ NoCallInProgress => \A c \in 1..Len(clients) : clients[c] = 1

\* ------------------------------------------------------------------------
\* C17: the server starts to listen only by the step in which an attempt of
\* connectWithRetry succeeds (connected, query answered); without the
\* signing secret at load, or with every attempt failed, the process exits
\* with a code that is not 0 and never listens; the start ends in one of
\* the two.
\* ------------------------------------------------------------------------
C17_Step ==
  /\ server'.pc = "listening" /\ server.pc # "listening" =>
       /\ server.pc = "query"
       /\ clients'[server.client] = 1
  /\ server.pc = "exited" => server' = server

C17_ListenAfterConnect ==
  /\ [][C17_Step]_vars
  /\ [](server.pc = "exited" => server.exitCode # 0)
  /\ [](~secretSet => server.pc # "listening")
  /\ [](server.attempt = retries => server.pc = "exited")
  /\ (~secretSet ~> server.pc = "exited")
  /\ <>(server.pc \in {"listening", "exited"})

\* every attempt has failed and the process has exited with code 1
C17_Witness ==
  /\ secretSet
  /\ server.attempt = retries
  /\ server.pc = "exited" /\ server.exitCode = 1
  /\ Len(clients) > 0

\* ------------------------------------------------------------------------
\* C18: an unexpected exception of a route handler (no status code below
\* 500, no recognised name, code or message) is answered with status 500
\* and a generic message, and its own message is not in the response.
\* ------------------------------------------------------------------------
Unexpected(err) ==
  /\ err.statusCode = 0 \/ err.statusCode >= 500
  /\ err.name \notin {"JsonWebTokenError", "TokenExpiredError"}
  /\ err.code \notin {"23505", "ECONNREFUSED"}
  /\ err.message \notin {"Not allowed by CORS", "Not allowed by CORS policy"}

C18_UnexpectedIsGeneric500 ==
  \A r \in ReqIds :
    /\ reqs[r].pc = "done"
    /\ reqs[r].route \in {"throw", "legacy:throw"}
    /\ Unexpected(reqs[r].body)
    => /\ reqs[r].res.status = 500
       /\ reqs[r].res.error = "Internal Server Error"
       /\ reqs[r].body.message # "" => reqs[r].res.error # reqs[r].body.message

\* ------------------------------------------------------------------------
\* C19: comparePassword never throws: it returns false for an empty input
\* and when the comparison fails internally, so a login of a stored user
\* whose comparison fails internally is answered like one with a wrong
\* password: 401 'Invalid email or password.'.
\* ------------------------------------------------------------------------
ComparisonErrors(req) ==
  /\ req.route = "login"
  /\ req.row # NoRow
  /\ bcryptCompare(req.body.password, req.row.password_hash) = "error"

C19_CompareNeverThrows ==
  /\ \A i \in 1..Len(users) :
       /\ ~comparePassword("", users[i].password_hash)
       /\ ~comparePasswordThrows("", users[i].password_hash)
       /\ ~comparePassword("secret1", NoHash)
       /\ ~comparePasswordThrows(NumberPassword, NoHash)
  /\ \A r \in ReqIds :
       /\ reqs[r].pc = "login:compare" =>
            ~comparePasswordThrows(reqs[r].body.password, reqs[r].row.password_hash)
       /\ reqs[r].pc = "done" /\ ComparisonErrors(reqs[r]) => reqs[r].res = LoginRefused

\* a login of a stored user with a password that is not a string has been
\* answered
C19_Witness ==
  \E r \in ReqIds :
    /\ reqs[r].pc = "done" /\ ComparisonErrors(reqs[r])
    /\ reqs[r].body.password = NumberPassword
    /\ reqs[r].res.status = 401

\* ------------------------------------------------------------------------
\* C20: mark-as-read, delete-notification and clear-all change only rows of
\* notifications whose user_id is the caller's: for an id that is another
\* user's row or no row, mark-as-read and delete-notification answer 404
\* with one message and change no row; clear-all keeps the rows of others.
\* ------------------------------------------------------------------------
RecipientRoutes == {"notif:mark-as-read", "notif:delete-notification", "notif:clear-all"}

NotMine(req) ==
  /\ req.route \in {"notif:mark-as-read", "notif:delete-notification"}
  /\ parseInt(req.body.id) # NaN
  /\ \A n \in notifications : n.id = parseInt(req.body.id) => n.user_id # req.user.id

NotFoundOrDenied == sendError("Notification not found or access denied.", 404)

RowsOfOthers(table, userId) == {n \in table : n.user_id # userId}

C20_Step ==
  \A r \in ReqIds :
    reqs[r].pc \in RecipientRoutes /\ reqs'[r] # reqs[r] =>
      /\ RowsOfOthers(notifications', reqs[r].user.id) =
           RowsOfOthers(notifications, reqs[r].user.id)
      /\ NotMine(reqs[r]) =>
           /\ notifications' = notifications
           /\ reqs'[r].pc = "done" /\ reqs'[r].res = NotFoundOrDenied

C20_OnlyOwnNotifications == [][C20_Step]_vars

\* delete-notification has answered 404 for the id of an unread row of
\* another user, and the row is in place
C20_Witness ==
  \E r \in ReqIds :
    /\ reqs[r].pc = "done"
    /\ reqs[r].route = "notif:delete-notification"
    /\ reqs[r].res = NotFoundOrDenied
    /\ \E n \in notifications :
         n.id = parseInt(reqs[r].body.id) /\ n.user_id # reqs[r].user.id /\ ~n.is_read

\* ------------------------------------------------------------------------
\* C21: two concurrent reschedule-class requests of the owner on a class
\* that is scheduled or rescheduled both succeed; the class then has the
\* (start_time, location) pair one of the two has sent, never the time of
\* one and the room of the other, and its status is 'rescheduled'.
\* ------------------------------------------------------------------------
OwnerRequest(req, route) ==
  /\ req.route = route
  /\ req.user.id = classes[1].hoc_id
  /\ parseInt(req.body.classId) = 1

PairOf(body) == <<NewDate(body.newTime), body.newRoom>>

\* the requests of slots a and b are the only ones, and both are answered
OnlyRequests(a, b) ==
  /\ a # b
  /\ reqs[a].pc = "done" /\ reqs[b].pc = "done"
  /\ \A q \in ReqIds \ {a, b} : reqs[q].pc = "idle"

C21_ConcurrentReschedules ==
  \A a \in ReqIds : \A b \in ReqIds :
    /\ OnlyRequests(a, b)
    /\ OwnerRequest(reqs[a], "hoc:reschedule-class")
    /\ OwnerRequest(reqs[b], "hoc:reschedule-class")
    => /\ reqs[a].res.success /\ reqs[b].res.success
       /\ classes[1].status = "rescheduled"
       /\ <<classes[1].start_time, classes[1].location>>
            \in {PairOf(reqs[a].body), PairOf(reqs[b].body)}

\* two reschedules of the owner that differ in time and in room are answered
C21_Witness ==
  \E a \in ReqIds : \E b \in ReqIds :
    /\ OnlyRequests(a, b)
    /\ OwnerRequest(reqs[a], "hoc:reschedule-class")
    /\ OwnerRequest(reqs[b], "hoc:reschedule-class")
    /\ reqs[a].body.newTime # reqs[b].body.newTime
    /\ reqs[a].body.newRoom # reqs[b].body.newRoom
    /\ reqs[a].res.success /\ reqs[b].res.success
    /\ <<classes[1].start_time, classes[1].location>> = PairOf(reqs[b].body)

\* ------------------------------------------------------------------------
\* C30: one cancel-class and one reschedule-class request of the owner in
\* flight at once on a class that is scheduled or rescheduled: the cancel
\* succeeds and the class ends cancelled; the reschedule succeeds (its
\* UPDATE ran first) or is answered 400 'Cannot reschedule completed or
\* cancelled class.', never 403 and never 404.
\* ------------------------------------------------------------------------
C30_CancelWinsOverReschedule ==
  \A a \in ReqIds : \A b \in ReqIds :
    /\ OnlyRequests(a, b)
    /\ OwnerRequest(reqs[a], "hoc:cancel-class")
    /\ OwnerRequest(reqs[b], "hoc:reschedule-class")
    => /\ reqs[a].res = sendSuccess(Message("Class cancelled successfully"), 200)
       /\ classes[1].status = "cancelled"
       /\ \/ reqs[b].res = sendSuccess(Message("Class rescheduled successfully"), 200)
          \/ reqs[b].res = sendError("Cannot reschedule completed or cancelled class.", 400)

\* the reschedule whose UPDATE ran after the cancel's is answered 400
C30_Witness ==
  \E a \in ReqIds : \E b \in ReqIds :
    /\ OnlyRequests(a, b)
    /\ OwnerRequest(reqs[a], "hoc:cancel-class")
    /\ OwnerRequest(reqs[b], "hoc:reschedule-class")
    /\ reqs[a].res.success
    /\ reqs[b].res = sendError("Cannot reschedule completed or cancelled class.", 400)
    /\ classes[1].status = "cancelled"
    /\ classes[1].location = SeedClass.location

\* ------------------------------------------------------------------------
\* C22: a run of protect ends in exactly one outcome: next is called once
\* with req.user the stored record of the token's user, or one 401 is sent
\* and next is not called; never both and never neither. A valid token
\* whose user id has no stored user is answered 401.
\* ------------------------------------------------------------------------
\* the header carries a token protect verifies
ValidToken(hdr) == startsWithBearer(hdr) /\ jwtVerify(hdr.cred, JWT_SECRET, now).ok

C22_Step ==
  \A r \in ReqIds : \A route \in ProtectedRoutes :
    Arrived(r, route) =>
      LET hdr == reqs'[r].hdr
          run == protectRun(hdr, users, now)
          rows == SelectUsersById(users, hdr.cred.userId)
      IN /\ run.nexts + Len(run.sent) = 1
         /\ run.nexts = 1 =>
              /\ ValidToken(hdr) /\ Len(rows) = 1
              /\ run.user = UserOfRow(rows[1])
              /\ reqs'[r].user = run.user
              /\ reqs'[r].pc = AfterProtect(route) /\ reqs'[r].res = NoRes
         /\ run.nexts = 0 =>
              /\ run.sent[1].status = 401
              /\ reqs'[r].pc = "done" /\ reqs'[r].res = run.sent[1]
              /\ reqs'[r].user = NoUser
         /\ (ValidToken(hdr) /\ Len(rows) = 0) =>
              reqs'[r].res = sendError("Not authorized, user not found.", 401)

C22_ProtectOneOutcome == [][C22_Step]_vars

\* a token the server signed, not expired, for a user id that is not stored,
\* has been answered 401
C22_Witness ==
  \E r \in ReqIds :
    /\ reqs[r].route \in ProtectedRoutes
    /\ ValidToken(reqs[r].hdr)
    /\ SelectUsersById(users, reqs[r].hdr.cred.userId) = <<>>
    /\ reqs[r].pc = "done"
    /\ reqs[r].res = sendError("Not authorized, user not found.", 401)

\* ------------------------------------------------------------------------
\* C23: connectWithRetry(retries, delay) terminates: it returns at the
\* first successful attempt and makes no further one; when every attempt
\* fails it makes exactly retries attempts and then throws; it waits
\* between two consecutive attempts and not after the last failed one.
\* ------------------------------------------------------------------------
Returned == server.pc = "listening"
Thrown == server.pc = "exited" /\ secretSet

C23_Counts ==
  /\ server.attempts <= retries
  /\ server.pc = "query" => server.delays = server.attempts - 1
  /\ server.pc = "delay" => server.delays = server.attempts /\ server.attempts < retries
  /\ server.pc = "connect" => server.delays = server.attempts
  /\ Returned => server.attempts >= 1 /\ server.delays = server.attempts - 1
  /\ Thrown => server.attempts = retries /\ server.delays = retries - 1

C23_Step ==
  /\ (Returned \/ Thrown) => server' = server
  /\ (server.pc = "query" /\ server'.pc = "listening") => server'.attempts = server.attempts

C23_ConnectWithRetryTerminates ==
  /\ []C23_Counts
  /\ [][C23_Step]_vars
  /\ <>(Returned \/ Thrown \/ ~secretSet)

\* every attempt has failed: retries attempts, one wait fewer, the error thrown
C23_Witness ==
  /\ Thrown
  /\ server.attempts = retries
  /\ server.delays = retries - 1

\* ------------------------------------------------------------------------
\* C24: transaction issues BEGIN, runs the callback, issues COMMIT exactly
\* when the callback resolves and returns the callback's result; when
\* BEGIN, the callback or COMMIT fails it issues ROLLBACK and rethrows the
\* error that caused the rollback; it never reports success after a
\* ROLLBACK; the client is released exactly once in every case.
\* ------------------------------------------------------------------------
Issued(statement) == \E i \in 1..Len(txn.log) : txn.log[i] = statement

\* a call of transaction that took a client has settled
TxnSettled == txn.pc = "idle" /\ txn.settled # Unsettled

C24_Statements ==
  /\ txn.pc \notin {"idle", "begin"} => txn.log[1] = "BEGIN"
  /\ Issued("COMMIT") <=>
       (Len(txn.log) >= 3 /\ txn.log[2] = "callback" /\ txn.caught \notin {"BeginError", "CallbackError"})
  /\ Issued("ROLLBACK") <=> (txn.caught # "" /\ txn.pc \in {"finally", "idle"})
  /\ txn.pc # "idle" => clients[txn.client] = 0

C24_Settled ==
  TxnSettled =>
    /\ txn.settled.kind = "resolved" =>
         /\ txn.log = <<"BEGIN", "callback", "COMMIT">>
         /\ txn.settled.value = "result"
    /\ Issued("ROLLBACK") => txn.settled = Reject(txn.caught)
    /\ txn.caught = "" => txn.settled = Resolve("result")

C24_Released ==
  (txn.pc = "finally" /\ txn'.pc = "idle") => clients'[txn.client] = 1

C24_TransactionOutcome ==
  /\ []C24_Statements
  /\ []C24_Settled
  /\ [][C24_Released]_vars

\* the part of C24 that does not depend on the outcome of ROLLBACK
C24_ExceptRethrow ==
  /\ []C24_Statements
  /\ [](TxnSettled =>
          /\ txn.settled.kind = "resolved" =>
               txn.log = <<"BEGIN", "callback", "COMMIT">> /\ txn.settled.value = "result"
          /\ Issued("ROLLBACK") => txn.settled.kind = "rejected"
          /\ txn.caught = "" => txn.settled = Resolve("result"))
  /\ [][C24_Released]_vars

\* ------------------------------------------------------------------------
\* C25: a limiter passes on at most maxRequests requests of one client ip
\* within any window of windowMs; a request that arrives while maxRequests
\* passed requests lie inside the window is answered 429 and not passed
\* on; the requests of other ips are not affected.
\* ------------------------------------------------------------------------
RECURSIVE SumPassed(_, _, _)
SumPassed(ip, route, times) ==
  IF times = {} THEN 0
  ELSE LET t == CHOOSE u \in times : TRUE
       IN passed[<<ip, route, t>>] + SumPassed(ip, route, times \ {t})

\* the windowMs instants that end with t
Window(t) == {u \in Times : t - windowMs < u /\ u <= t}

\* the requests of ip the limiter of route has passed on in the window at t
PassedIn(ip, route, t) == SumPassed(ip, route, Window(t))

C25_AtMostMax ==
  \A ip \in Ips : \A route \in LimitedRoutes : \A t \in Times :
    PassedIn(ip, route, t) <= maxRequests(route)

C25_Step ==
  \A ip \in Ips : \A route \in LimitedRoutes :
    (ms' = ms /\ lastLimit'.ip = ip /\ lastLimit'.route = route) =>
      /\ PassedIn(ip, route, ms) >= maxRequests(route) =>
           lastLimit'.status = 429 /\ passed' = passed
      /\ \A other \in Ips \ {ip} :
           /\ rateLimitMap'[other] = rateLimitMap[other]
           /\ \A r2 \in LimitedRoutes : \A t \in Times :
                passed'[<<other, r2, t>>] = passed[<<other, r2, t>>]

C25_RateLimit == []C25_AtMostMax /\ [][C25_Step]_vars

\* ip1 is answered 429 on /limited with maxRequests of its requests passed on
\* inside the window, while ip2 has been passed on at the same instant
C25_Witness ==
  /\ lastLimit = [ip |-> "ip1", route |-> "limited", status |-> 429]
  /\ PassedIn("ip1", "limited", ms) = LimitedMaxRequests
  /\ ms >= windowMs
  /\ passed[<<"ip2", "limited", ms>>] >= 1

\* ------------------------------------------------------------------------
\* C26: send-class-notification by a caller who does not own the class is
\* answered 403, inserts no notification row and sends no push; by the
\* owner it inserts exactly one row for each student enrolled in the class
\* whose notifications_enabled is true, none for any other user, and the
\* count of logged students in the response is the number of rows inserted.
\* ------------------------------------------------------------------------
\* the body passes the checks the handler makes before it reads the class
ClassNotifyValid(body) ==
  body.classId # "" /\ body.title # "" /\ body.message # "" /\ parseInt(body.classId) # NaN

OwnsClass(userId, classId) ==
  \E i \in 1..Len(classes) : classes[i].id = classId /\ classes[i].hoc_id = userId

\* the request names a class by a number, and its caller does not own it
NotOwner(r) ==
  /\ parseInt(reqs[r].body.classId) # NaN
  /\ ~OwnsClass(reqs[r].user.id, parseInt(reqs[r].body.classId))

EnabledStudents(classId) ==
  {u \in 1..Len(users) :
     [student_id |-> u, class_id |-> classId] \in enrollments /\ u \in notifications_enabled}

\* the handler of a request runs from its start to its first await or response
ClassNotifyRuns(r) ==
  reqs[r].pc = "notif:send-class-notification" /\ reqs'[r].pc # reqs[r].pc

NoRowNoPush(r) ==
  /\ notifications' = notifications
  /\ outbox' = outbox
  /\ reqs'[r].pc = "done"

C26_Owner(r) ==
  LET classId == parseInt(reqs[r].body.classId)
      new == notifications' \ notifications
  IN (ClassNotifyRuns(r) /\ ClassNotifyValid(reqs[r].body) /\ OwnsClass(reqs[r].user.id, classId)) =>
       /\ \A u \in EnabledStudents(classId) : Cardinality({n \in new : n.user_id = u}) = 1
       /\ \A n \in new : n.user_id \in EnabledStudents(classId)
       /\ notifications \subseteq notifications'
       /\ IF reqs'[r].pc = "done"
          THEN reqs'[r].res.success /\ reqs'[r].res.data.logged = Cardinality(new)
          ELSE reqs'[r].pc = "notif:push" /\ reqs'[r].logged = Cardinality(new)

C26_Answer(r) ==
  (reqs[r].pc = "notif:push" /\ reqs[r].route = "notif:send-class-notification"
     /\ reqs'[r].pc = "done") =>
    /\ reqs'[r].res.success
    /\ reqs'[r].res.data.logged = reqs[r].logged
    /\ notifications' = notifications

C26_OriginalStep ==
  \A r \in ReqIds :
    /\ (ClassNotifyRuns(r) /\ NotOwner(r)) =>
         reqs'[r].res.status = 403 /\ NoRowNoPush(r)
    /\ C26_Owner(r)
    /\ C26_Answer(r)

C26_Original == [][C26_OriginalStep]_vars

\* amended: a caller who does not own the class is answered 403 when the
\* body passes validation, and 400 when it does not; no row and no push in
\* both cases
C26_Step ==
  \A r \in ReqIds :
    /\ (ClassNotifyRuns(r) /\ NotOwner(r)) =>
         /\ reqs'[r].res.status = IF ClassNotifyValid(reqs[r].body) THEN 403 ELSE 400
         /\ NoRowNoPush(r)
    /\ C26_Owner(r)
    /\ C26_Answer(r)

C26_ClassNotification == [][C26_Step]_vars

\* the owner has notified class 1, where students 2 and 3 are enrolled and
\* only student 2 has notifications enabled: one row, for student 2, after
\* the push to the token of student 2
C26_Witness ==
  \E r \in ReqIds :
    /\ reqs[r].route = "notif:send-class-notification" /\ reqs[r].pc = "done"
    /\ reqs[r].user.id = 1
    /\ reqs[r].res.success /\ reqs[r].res.data.logged = 1
    /\ {e.student_id : e \in {x \in enrollments : x.class_id = 1}} = {2, 3}
    /\ notifications_enabled = {2}
    /\ {n.user_id : n \in notifications} = {2}
    /\ "ExponentPushToken[a]" \in outbox

\* ------------------------------------------------------------------------
\* C27: after SIGTERM or SIGINT the process exits in the end: with code 0
\* after the HTTP server has closed and the pool has been closed (also when
\* closing the pool fails), or with code 1 when the server has not closed
\* within 10 seconds; the pool is never closed before the server has
\* stopped accepting requests.
\* ------------------------------------------------------------------------
Signalled == down.signals > 0
Exited(code) == server.pc = "exited" /\ server.exitCode = code

C27_ExitZero ==
  (Signalled /\ Exited(0)) =>
    down.http = "closed" /\ down.closePool \in {"resolved", "rejected"}

C27_PoolAfterServer == down.pool # "open" => down.http = "closed"

\* the process exits with 1 after a signal
ExitsOne == Signalled /\ server.pc = "listening" /\ server'.pc = "exited" /\ server'.exitCode = 1

C27_Original ==
  /\ (Signalled ~> server.pc = "exited")
  /\ []C27_ExitZero
  /\ []C27_PoolAfterServer
  /\ [][ExitsOne => down.http # "closed"]_vars

\* amended: code 1 when the shutdown, the close of the server and of the
\* pool after it, has not ended when the timer fires
C27_GracefulShutdown ==
  /\ (Signalled ~> server.pc = "exited")
  /\ []C27_ExitZero
  /\ []C27_PoolAfterServer
  /\ [][ExitsOne => (down.timer = "armed" /\ down'.timer = "fired"
                      /\ (down.http # "closed" \/ down.closePool = "pending"))]_vars

\* the server has closed, pool.end() has not settled, and the timer has
\* ended the process with 1
C27_Witness ==
  /\ Exited(1)
  /\ down.timer = "fired"
  /\ down.http = "closed"
  /\ down.closePool = "pending"

\* ------------------------------------------------------------------------
\* C28: from a store in which no user has is_hoc = true, no request through
\* the routes server.js mounts makes a user's is_hoc true: signup stores
\* is_hoc = false whatever the body contains, and force-enable-hoc, the one
\* operation that sets the flag, is reached only by a caller who passes
\* hocOnly.
\* ------------------------------------------------------------------------
NoHoc(table) == \A i \in 1..Len(table) : table[i].is_hoc = FALSE

C28_Step ==
  /\ NoHoc(users) => NoHoc(users')
  /\ Len(users') > Len(users) => users'[Len(users')].is_hoc = FALSE

C28_Reached ==
  \A r \in ReqIds :
    reqs[r].pc = "hoc:force-enable-hoc" =>
      /\ IsHocUser(reqs[r])
      /\ users[reqs[r].user.id].is_hoc = TRUE

C28_NoSelfPromotion == [][C28_Step]_vars /\ []C28_Reached

\* in a store without a head of class, the user a signup with isHoc: true
\* has stored has logged in and asked for force-enable-hoc: 403, and still
\* no head of class
C28_Witness ==
  \E r \in ReqIds :
    /\ Len(users) = 3 /\ NoHoc(users)
    /\ reqs[r].route = "hoc:force-enable-hoc" /\ reqs[r].pc = "done"
    /\ reqs[r].user # NoUser /\ reqs[r].user.id = 3
    /\ reqs[r].res.status = 403

\* ------------------------------------------------------------------------
\* C29: for every interleaving of two concurrent signup requests whose
\* emails are equal ignoring case, at most one user row with that email
\* exists afterwards, at most one request is answered 201 and the other
\* 409 (by the check before the INSERT, or by the global error handler's
\* mapping of the unique violation), never 500, and there is never a
\* second row.
\* ------------------------------------------------------------------------
\* a signup with a payload that passes validation has been answered
SignupDone(r) ==
  reqs[r].route = "signup" /\ reqs[r].pc = "done" /\ SignupValid(reqs[r].body)

C29_OneRow ==
  \A i \in 1..Len(users) : \A j \in 1..Len(users) :
    SameEmail(users[i].email, users[j].email) => i = j

C29_Answers ==
  \A a \in ReqIds : \A b \in ReqIds \ {a} :
    (SignupDone(a) /\ SignupDone(b) /\ SameEmail(reqs[a].body.email, reqs[b].body.email)) =>
      /\ reqs[a].res.status \in {201, 409}
      /\ reqs[a].res.status = 201 => reqs[b].res.status = 409

C29_ConcurrentSignups == C29_OneRow /\ C29_Answers

\* both requests have passed the check before the INSERT; the first INSERT
\* is answered 201, the second 409 by the global error handler
C29_Witness ==
  \E a \in ReqIds : \E b \in ReqIds \ {a} :
    /\ SignupDone(a) /\ SignupDone(b)
    /\ reqs[a].body.email = EmailLower /\ reqs[b].body.email = EmailUpper
    /\ reqs[a].res.status = 201
    /\ reqs[b].res = globalErrorHandler(UniqueViolation)
    /\ Len(users) = 1

====
